---- MODULE Spec2Model ----
(***************************************************************************)
(* Subscription reconciliation of the payment service: webhook events are  *)
(* applied by PaymentService.HandleWebhookEvent to the subscription rows   *)
(* held by postgresSubscriptionRepo behind CachedSubscriptionRepository,   *)
(* and cancellation events are handed to the Kafka producer.               *)
(***************************************************************************)
EXTENDS Integers, Sequences, FiniteSets, TLC

\* ------------------------------------------------------------------ bounds

\* Unix timestamps carried by payloads range over 1..MaxTime (0: field absent).
MaxTime == 2
\* Number of webhook deliveries in one behaviour; the wall clock ticks once
\* per delivery.
MaxDeliveries == 3

\* ------------------------------------------------------------- data model

\* models.Subscription. A nil *time.Time is NilTime. Unix times are > 0.
NilTime == 0

TrackedID == "sub_1"
UntrackedID == "sub_2"
SubIDs == {TrackedID, UntrackedID}

\* The users that make requests: the owner of the tracked subscription and
\* somebody else.
Users == {"user_1", "user_2"}

Subscription(id, user, plan, status, expires, canceled, updated) ==
    [SubscriptionID |-> id, UserID |-> user, PlanID |-> plan, Status |-> status,
     ExpiresAt |-> expires, CanceledAt |-> canceled, UpdatedAt |-> updated]

\* A nil *models.Subscription / an absent row / an absent cache key.
NoSub == Subscription("", "", "", "", NilTime, NilTime, 0)

\* A value of the map[string]interface{} that json.Unmarshal builds from the
\* event object: a string, a number (float64), or no such key.
Str(s) == [k |-> "string", s |-> s, n |-> 0]
Num(n) == [k |-> "number", s |-> "", n |-> n]
Absent == [k |-> "absent", s |-> "", n |-> 0]

\* getStringValue: the string under key, "" when absent or not a string.
getStringValue(data, key) ==
    IF data[key].k = "string" THEN data[key].s ELSE ""

\* getInt64Value: the number under key as int64, 0 when absent or not a number.
getInt64Value(data, key) ==
    IF data[key].k = "number" THEN data[key].n ELSE 0

\* getTimeValueFromUnix: time.Unix(n, 0) for n > 0, the zero time otherwise.
getTimeValueFromUnix(data, key) ==
    LET unixTimestamp == getInt64Value(data, key)
    IN  IF unixTimestamp > 0 THEN unixTimestamp ELSE NilTime

\* extractPlanIDFromWebhookData: plan.id first, then items.data[0].price.id.
\* The nested lookups are the payload keys "plan" and "price".
extractPlanIDFromWebhookData(data) ==
    IF data["plan"].k = "string" /\ data["plan"].s # ""
    THEN data["plan"].s
    ELSE IF data["price"].k = "string" /\ data["price"].s # ""
         THEN data["price"].s
         ELSE ""

\* ------------------------------------------------------------ repositories

\* The outcome of each store and cache call of one request: TRUE when the
\* call succeeds. dbUpdate2 is the second Update of invoice.payment_succeeded,
\* cacheDel the DEL of a user's list key.
NoFault == [cacheGet |-> TRUE, dbGet |-> TRUE, dbUpdate |-> TRUE,
            cacheSet |-> TRUE, dbUpdate2 |-> TRUE, cacheDel |-> TRUE]

\* The Redis key of a user's subscription list (userSubscriptionsKeyPrefix);
\* a subscription's key is written as its id.
userSubscriptionsKey(userID) == "user_subscriptions:" \o userID

\* A nil []models.Subscription / an absent list key.
NoList == <<>>

\* Redis with none of the keys set.
EmptyCache ==
    [k \in SubIDs \cup {userSubscriptionsKey(u) : u \in Users} |->
        IF k \in SubIDs THEN NoSub ELSE NoList]

\* RedisCacheRepository.GetCachedSubscription: the entry under the key, nil on
\* redis.Nil and on any error (the caller logs the error and goes on).
GetCachedSubscription(cache, id, ok) ==
    IF ok /\ id \in DOMAIN cache THEN cache[id] ELSE NoSub

\* RedisCacheRepository.CacheSubscription: SET key json ttl; on failure the
\* key keeps what it held.
CacheSubscription(cache, sub, ok) ==
    IF ok /\ sub.SubscriptionID \in DOMAIN cache
    THEN [cache EXCEPT ![sub.SubscriptionID] = sub]
    ELSE cache

\* RedisCacheRepository.GetCachedUserSubscriptions: the list under the user's
\* key, nil on redis.Nil and on any error.
GetCachedUserSubscriptions(cache, userID, ok) ==
    IF ok /\ userSubscriptionsKey(userID) \in DOMAIN cache
    THEN cache[userSubscriptionsKey(userID)]
    ELSE NoList

\* RedisCacheRepository.CacheUserSubscriptions: SET key json ttl; on failure
\* the key keeps what it held.
CacheUserSubscriptions(cache, userID, subs, ok) ==
    IF ok /\ userSubscriptionsKey(userID) \in DOMAIN cache
    THEN [cache EXCEPT ![userSubscriptionsKey(userID)] = subs]
    ELSE cache

\* RedisCacheRepository.InvalidateUserSubscriptionsCache: DEL key; on failure
\* the key keeps what it held.
InvalidateUserSubscriptionsCache(cache, userID, ok) ==
    IF ok /\ userSubscriptionsKey(userID) \in DOMAIN cache
    THEN [cache EXCEPT ![userSubscriptionsKey(userID)] = NoList]
    ELSE cache

\* postgresSubscriptionRepo.Create: stamps sub.UpdatedAt, then INSERT; the
\* primary key subscription_id rejects a second row with the same id.
RepoCreate(db, sub, now, ok) ==
    IF ~ok \/ sub.SubscriptionID \notin DOMAIN db \/ db[sub.SubscriptionID] # NoSub
    THEN [db |-> db, sub |-> [sub EXCEPT !.UpdatedAt = now], err |-> "db_error"]
    ELSE [db |-> [db EXCEPT ![sub.SubscriptionID] = [sub EXCEPT !.UpdatedAt = now]],
          sub |-> [sub EXCEPT !.UpdatedAt = now], err |-> "nil"]

\* The rows of a user among the rows with the ids given, in the order of ids.
RECURSIVE RowsOf(_, _, _)
RowsOf(db, userID, ids) ==
    IF ids = <<>> THEN <<>>
    ELSE (IF db[Head(ids)] # NoSub /\ db[Head(ids)].UserID = userID
          THEN <<db[Head(ids)]>> ELSE <<>>)
         \o RowsOf(db, userID, Tail(ids))

\* postgresSubscriptionRepo.GetByUserID: the user's rows (an empty slice when
\* there are none), a wrapped error on a failure; created_at, which orders
\* the rows, is not kept here and the order is that of the ids.
RepoGetByUserID(db, userID, ok) ==
    IF ~ok THEN [subs |-> NoList, err |-> "db_error"]
    ELSE [subs |-> RowsOf(db, userID, <<TrackedID, UntrackedID>>), err |-> "nil"]

\* postgresSubscriptionRepo.GetByID: the row, ErrNotFound on sql.ErrNoRows,
\* a wrapped error on any other failure.
RepoGetByID(db, id, ok) ==
    IF ~ok THEN [sub |-> NoSub, err |-> "db_error"]
    ELSE IF id \notin DOMAIN db \/ db[id] = NoSub
         THEN [sub |-> NoSub, err |-> "ErrNotFound"]
         ELSE [sub |-> db[id], err |-> "nil"]

\* postgresSubscriptionRepo.Update: stamps sub.UpdatedAt, then UPDATE ... SET
\* status, updated_at, expires_at, canceled_at WHERE subscription_id; plan_id
\* and user_id are not in the SET list. Zero rows affected is not an error.
RepoUpdate(db, sub, now, ok) ==
    LET stamped == [sub EXCEPT !.UpdatedAt = now]
        id == sub.SubscriptionID
    IN  IF ~ok THEN [db |-> db, sub |-> stamped, err |-> "db_error"]
        ELSE IF id \notin DOMAIN db \/ db[id] = NoSub
             THEN [db |-> db, sub |-> stamped, err |-> "nil"]
             ELSE [db |-> [db EXCEPT ![id] =
                              [@ EXCEPT !.Status = stamped.Status,
                                        !.UpdatedAt = stamped.UpdatedAt,
                                        !.ExpiresAt = stamped.ExpiresAt,
                                        !.CanceledAt = stamped.CanceledAt]],
                   sub |-> stamped, err |-> "nil"]

\* A variant of CachedGetByID that does not fill the cache after a miss.
CachedGetByIDNoFill(st, id, env) ==
    LET cachedSub == GetCachedSubscription(st.cache, id, env.cacheGet)
    IN  IF cachedSub # NoSub
        THEN [sub |-> cachedSub, err |-> "nil", cache |-> st.cache]
        ELSE LET r == RepoGetByID(st.db, id, env.dbGet)
             IN  IF r.err # "nil"
                 THEN [sub |-> NoSub, err |-> r.err, cache |-> st.cache]
                 ELSE [sub |-> r.sub, err |-> "nil", cache |-> st.cache]

\* CachedSubscriptionRepository.GetByID (and GetByStripeSubscriptionID, its
\* proxy): the cached entry on a hit, else the row, which is then cached.
CachedGetByID(st, id, env) ==
    LET cachedSub == GetCachedSubscription(st.cache, id, env.cacheGet)
    IN  IF cachedSub # NoSub
        THEN [sub |-> cachedSub, err |-> "nil", cache |-> st.cache]
        ELSE LET r == RepoGetByID(st.db, id, env.dbGet)
             IN  IF r.err # "nil"
                 THEN [sub |-> NoSub, err |-> r.err, cache |-> st.cache]
                 ELSE [sub |-> r.sub, err |-> "nil",
                       cache |-> CacheSubscription(st.cache, r.sub, env.cacheSet)]

\* CachedSubscriptionRepository.Update: the store first; on its error nothing
\* else; then the cache entry is overwritten with the caller's struct and the
\* list key of its user is deleted (a failure of either is only logged).
CachedUpdate(st, sub, now, dbOk, cacheOk, delOk) ==
    LET r == RepoUpdate(st.db, sub, now, dbOk)
    IN  IF r.err # "nil"
        THEN [db |-> st.db, cache |-> st.cache, sub |-> r.sub, err |-> r.err]
        ELSE [db |-> r.db,
              cache |-> InvalidateUserSubscriptionsCache(
                            CacheSubscription(st.cache, r.sub, cacheOk),
                            r.sub.UserID, delOk),
              sub |-> r.sub, err |-> "nil"]

\* A variant of CachedCreate that returns the error of a failed cache write.
CachedCreateStrict(st, sub, now, dbOk, cacheOk, delOk) ==
    LET r == RepoCreate(st.db, sub, now, dbOk)
    IN  IF r.err # "nil"
        THEN [db |-> st.db, cache |-> st.cache, sub |-> r.sub, err |-> r.err]
        ELSE [db |-> r.db,
              cache |-> InvalidateUserSubscriptionsCache(
                            CacheSubscription(st.cache, r.sub, cacheOk),
                            r.sub.UserID, delOk),
              sub |-> r.sub, err |-> IF cacheOk THEN "nil" ELSE "cache_error"]

\* CachedSubscriptionRepository.Create: the store first; on its error nothing
\* else; then the struct is cached and the list key of its user is deleted
\* (a failure of either is only logged).
CachedCreate(st, sub, now, dbOk, cacheOk, delOk) ==
    LET r == RepoCreate(st.db, sub, now, dbOk)
    IN  IF r.err # "nil"
        THEN [db |-> st.db, cache |-> st.cache, sub |-> r.sub, err |-> r.err]
        ELSE [db |-> r.db,
              cache |-> InvalidateUserSubscriptionsCache(
                            CacheSubscription(st.cache, r.sub, cacheOk),
                            r.sub.UserID, delOk),
              sub |-> r.sub, err |-> "nil"]

\* CachedSubscriptionRepository.GetByUserID after the cache answered
\* cachedSubs: a non-empty cached list, else what the store returns, cached
\* when it is not empty.
ListLoaded(st, userID, env, cachedSubs, r) ==
    IF cachedSubs # NoList
    THEN [subs |-> cachedSubs, err |-> "nil", cache |-> st.cache]
    ELSE IF r.err # "nil"
    THEN [subs |-> NoList, err |-> r.err, cache |-> st.cache]
    ELSE [subs |-> r.subs, err |-> "nil",
          cache |-> IF r.subs # <<>>
                    THEN CacheUserSubscriptions(st.cache, userID, r.subs, env.cacheSet)
                    ELSE st.cache]

\* CachedSubscriptionRepository.GetByUserID.
CachedGetByUserID(st, userID, env) ==
    ListLoaded(st, userID, env,
               GetCachedUserSubscriptions(st.cache, userID, env.cacheGet),
               RepoGetByUserID(st.db, userID, env.dbGet))

\* ------------------------------------------------------- PaymentService

\* findAndUpdateSubscriptionStatus, step 2: the merge of newStatus and the
\* payload into the struct that was read, and whether a write is needed.
MergeStatus(sub, newStatus) ==
    IF sub.Status # newStatus \/ newStatus = "canceled"
    THEN [sub |-> [sub EXCEPT !.Status = newStatus], needsUpdate |-> TRUE]
    ELSE [sub |-> sub, needsUpdate |-> FALSE]

MergePlan(sub, data) ==
    LET newPlanID == extractPlanIDFromWebhookData(data)
    IN  IF newPlanID # "" /\ sub.PlanID # newPlanID
        THEN [sub |-> [sub EXCEPT !.PlanID = newPlanID], needsUpdate |-> TRUE]
        ELSE [sub |-> sub, needsUpdate |-> FALSE]

\* A variant of MergePeriodEnd with the comparison the wrong way round.
MergePeriodEndBackwards(sub, data) ==
    LET currentPeriodEnd == getTimeValueFromUnix(data, "current_period_end")
    IN  IF currentPeriodEnd # NilTime
           /\ (sub.ExpiresAt = NilTime \/ currentPeriodEnd < sub.ExpiresAt)
        THEN [sub |-> [sub EXCEPT !.ExpiresAt = currentPeriodEnd],
              needsUpdate |-> TRUE]
        ELSE [sub |-> sub, needsUpdate |-> FALSE]

MergePeriodEnd(sub, data) ==
    LET currentPeriodEnd == getTimeValueFromUnix(data, "current_period_end")
    IN  IF currentPeriodEnd # NilTime
           /\ (sub.ExpiresAt = NilTime \/ sub.ExpiresAt < currentPeriodEnd)
        THEN [sub |-> [sub EXCEPT !.ExpiresAt = currentPeriodEnd],
              needsUpdate |-> TRUE]
        ELSE [sub |-> sub, needsUpdate |-> FALSE]

MergeCanceledAt(sub, data) ==
    LET canceledAt == getTimeValueFromUnix(data, "canceled_at")
    IN  IF canceledAt # NilTime
           /\ (sub.CanceledAt = NilTime \/ sub.CanceledAt # canceledAt)
        THEN [sub |-> [sub EXCEPT !.CanceledAt = canceledAt,
                                  !.Status = "canceled"],
              needsUpdate |-> TRUE]
        ELSE [sub |-> sub, needsUpdate |-> FALSE]

MergeWebhookData(sub, newStatus, data) ==
    LET m1 == MergeStatus(sub, newStatus)
        m2 == MergePlan(m1.sub, data)
        m3 == MergePeriodEnd(m2.sub, data)
        m4 == MergeCanceledAt(m3.sub, data)
    IN  [sub |-> m4.sub,
         needsUpdate |-> m1.needsUpdate \/ m2.needsUpdate
                         \/ m3.needsUpdate \/ m4.needsUpdate]

\* findAndUpdateSubscriptionStatus, step 3: what the function returns once
\* subRepo.Update has answered u.
Persisted(u) ==
    [db |-> u.db, cache |-> u.cache, sub |-> u.sub,
     err |-> IF u.err = "nil" THEN "nil" ELSE "ErrInternalServer",
     updates |-> 1]

\* findAndUpdateSubscriptionStatus, step 3: the merged struct m of the lookup
\* g is written when the merge changed something.
PersistMerged(st, g, m, now, env) ==
    IF m.needsUpdate
    THEN Persisted(CachedUpdate([db |-> st.db, cache |-> g.cache], m.sub,
                                now, env.dbUpdate, env.cacheSet, env.cacheDel))
    ELSE [db |-> st.db, cache |-> g.cache, sub |-> m.sub,
          err |-> "nil", updates |-> 0]

\* findAndUpdateSubscriptionStatus after the lookup answered g: its error
\* branches, else merge and persist.
MergeFound(st, g, newStatus, data, now, env) ==
    IF g.err = "ErrNotFound"
    THEN [db |-> st.db, cache |-> g.cache, sub |-> NoSub,
          err |-> "ErrSubscriptionNotFound", updates |-> 0]
    ELSE IF g.err # "nil"
    THEN [db |-> st.db, cache |-> g.cache, sub |-> NoSub,
          err |-> "ErrInternalServer", updates |-> 0]
    ELSE PersistMerged(st, g, MergeWebhookData(g.sub, newStatus, data), now, env)

\* findAndUpdateSubscriptionStatus: look the subscription up by its Stripe id,
\* merge, and Update when the merge changed something. updates counts the
\* calls of subRepo.Update.
findAndUpdateSubscriptionStatus(st, stripeSubscriptionID, newStatus, data, now, env) ==
    IF stripeSubscriptionID = ""
    THEN [db |-> st.db, cache |-> st.cache, sub |-> NoSub,
          err |-> "empty_id", updates |-> 0]
    ELSE MergeFound(st, CachedGetByID(st, stripeSubscriptionID, env),
                    newStatus, data, now, env)

\* kafka.TopicSubscriptionCreated / kafka.TopicSubscriptionCancelled.
TopicSubscriptionCreated == "subscription_created"
TopicSubscriptionCancelled == "subscription_cancelled"

\* publishSubscriptionEvent: the calls of kafkaProducer.PublishSubscriptionEvent
\* it makes (none when the producer is nil); the topic is always the created one.
publishSubscriptionEvent(kafkaProducer, subscription) ==
    IF ~kafkaProducer THEN <<>>
    ELSE << [topic |-> TopicSubscriptionCreated, sub |-> subscription] >>

\* What a handler leaves behind: the store, the cache, its return value, the
\* emissions it started and the number of subRepo.Update calls it made.
Outcome(db, cache, err, emits, updates) ==
    [db |-> db, cache |-> cache, err |-> err, emits |-> emits, updates |-> updates]

\* A variant of IgnoreNotFound that passes ErrSubscriptionNotFound on to the
\* caller.
PropagateNotFound(err) ==
    IF err = "nil" THEN "nil" ELSE "error"

\* The error HandleWebhookEvent returns for the error of
\* findAndUpdateSubscriptionStatus, with ErrSubscriptionNotFound ignored.
IgnoreNotFound(err) ==
    IF err = "nil" \/ err = "ErrSubscriptionNotFound" THEN "nil" ELSE "error"

\* A case that ends with the answer r of findAndUpdateSubscriptionStatus.
Acknowledge(r) ==
    Outcome(r.db, r.cache, IgnoreNotFound(r.err), <<>>, r.updates)

\* A case that returns before any lookup.
Skip(st) == Outcome(st.db, st.cache, "nil", <<>>, 0)

\* case "customer.subscription.created"
HandleSubscriptionCreated(st, data, now, env) ==
    Acknowledge(findAndUpdateSubscriptionStatus(
        st, getStringValue(data, "id"), getStringValue(data, "status"),
        data, now, env))

\* case "customer.subscription.updated"
HandleSubscriptionUpdated(st, data, now, env) ==
    IF getStringValue(data, "id") = "" THEN Skip(st)
    ELSE Acknowledge(findAndUpdateSubscriptionStatus(
             st, getStringValue(data, "id"), getStringValue(data, "status"),
             data, now, env))

\* The copy of the subscription the deleted case publishes.
EventSub(sub, now) ==
    [sub EXCEPT !.Status = "canceled",
                !.CanceledAt = IF @ = NilTime THEN now ELSE @]

\* case "customer.subscription.deleted", after findAndUpdateSubscriptionStatus
\* answered r.
PublishCanceled(r, now, kafkaProducer) ==
    IF r.err # "nil" THEN Acknowledge(r)
    ELSE Outcome(r.db, r.cache, "nil",
                 IF r.sub # NoSub
                 THEN publishSubscriptionEvent(kafkaProducer, EventSub(r.sub, now))
                 ELSE <<>>,
                 r.updates)

\* case "customer.subscription.deleted"
HandleSubscriptionDeleted(st, data, now, env, kafkaProducer) ==
    IF getStringValue(data, "id") = "" THEN Skip(st)
    ELSE PublishCanceled(
             findAndUpdateSubscriptionStatus(st, getStringValue(data, "id"),
                                             "canceled", data, now, env),
             now, kafkaProducer)

\* case "customer.subscription.trial_will_end": a lookup only (which fills the
\* cache on a miss).
HandleTrialWillEnd(st, data, env) ==
    Outcome(st.db, CachedGetByID(st, getStringValue(data, "id"), env).cache,
            "nil", <<>>, 0)

\* case "invoice.payment_succeeded": the second Update answered u; its error
\* is only logged.
Extended(r, u) == Outcome(u.db, u.cache, "nil", <<>>, r.updates + 1)

\* case "invoice.payment_succeeded", after findAndUpdateSubscriptionStatus
\* answered r: expires_at is moved forward to period_end.
ExtendPeriod(r, periodEnd, now, env) ==
    IF r.err # "nil" THEN Acknowledge(r)
    ELSE IF r.sub # NoSub /\ periodEnd # NilTime
            /\ (r.sub.ExpiresAt = NilTime \/ r.sub.ExpiresAt < periodEnd)
    THEN Extended(r, CachedUpdate([db |-> r.db, cache |-> r.cache],
                                  [r.sub EXCEPT !.ExpiresAt = periodEnd],
                                  now, env.dbUpdate2, env.cacheSet, env.cacheDel))
    ELSE Outcome(r.db, r.cache, "nil", <<>>, r.updates)

\* case "invoice.payment_succeeded"
HandleInvoicePaymentSucceeded(st, data, now, env) ==
    IF getStringValue(data, "subscription") = "" THEN Skip(st)
    ELSE ExtendPeriod(
             findAndUpdateSubscriptionStatus(st, getStringValue(data, "subscription"),
                                             "active", data, now, env),
             getTimeValueFromUnix(data, "period_end"), now, env)

\* case "invoice.payment_failed"
HandleInvoicePaymentFailed(st, data, now, env) ==
    IF getStringValue(data, "subscription") = "" THEN Skip(st)
    ELSE Acknowledge(findAndUpdateSubscriptionStatus(
             st, getStringValue(data, "subscription"), "past_due", data, now, env))

\* The event types HandleWebhookEvent has a case for.
HandledTypes == {"customer.subscription.created", "customer.subscription.updated",
                 "customer.subscription.deleted",
                 "customer.subscription.trial_will_end",
                 "invoice.payment_succeeded", "invoice.payment_failed"}

\* A variant of the switch whose default branch treats the object as an
\* updated subscription.
HandleWebhookEventDefaultUpdates(st, eventType, data, now, env, kafkaProducer) ==
    CASE eventType = "customer.subscription.created" ->
            HandleSubscriptionCreated(st, data, now, env)
      [] eventType = "customer.subscription.deleted" ->
            HandleSubscriptionDeleted(st, data, now, env, kafkaProducer)
      [] eventType = "customer.subscription.trial_will_end" ->
            HandleTrialWillEnd(st, data, env)
      [] eventType = "invoice.payment_succeeded" ->
            HandleInvoicePaymentSucceeded(st, data, now, env)
      [] eventType = "invoice.payment_failed" ->
            HandleInvoicePaymentFailed(st, data, now, env)
      [] OTHER -> HandleSubscriptionUpdated(st, data, now, env)

\* HandleWebhookEvent: the switch on the event type.
HandleWebhookEvent(st, eventType, data, now, env, kafkaProducer) ==
    CASE eventType = "customer.subscription.created" ->
            HandleSubscriptionCreated(st, data, now, env)
      [] eventType = "customer.subscription.updated" ->
            HandleSubscriptionUpdated(st, data, now, env)
      [] eventType = "customer.subscription.deleted" ->
            HandleSubscriptionDeleted(st, data, now, env, kafkaProducer)
      [] eventType = "customer.subscription.trial_will_end" ->
            HandleTrialWillEnd(st, data, env)
      [] eventType = "invoice.payment_succeeded" ->
            HandleInvoicePaymentSucceeded(st, data, now, env)
      [] eventType = "invoice.payment_failed" ->
            HandleInvoicePaymentFailed(st, data, now, env)
      [] OTHER -> Outcome(st.db, st.cache, "nil", <<>>, 0)

\* ------------------------------------------------------------------ events

\* The fields of event.Data.Raw that the service reads. n = 0 and s = "" stand
\* for a key the object does not carry.
NumOrAbsent(n) == IF n = 0 THEN Absent ELSE Num(n)
StrOrAbsent(s) == IF s = "" THEN Absent ELSE Str(s)

\* A Stripe subscription object (customer.subscription.* events).
SubscriptionObject(id, status, periodEnd, canceledAt, plan, price) ==
    [id |-> StrOrAbsent(id), object |-> Str("subscription"),
     subscription |-> Absent, status |-> StrOrAbsent(status),
     current_period_end |-> NumOrAbsent(periodEnd), period_end |-> Absent,
     canceled_at |-> NumOrAbsent(canceledAt),
     plan |-> StrOrAbsent(plan), price |-> StrOrAbsent(price)]

\* A Stripe invoice object (invoice.* events).
InvoiceObject(subscription, periodEnd) ==
    [id |-> Str("in_1"), object |-> Str("invoice"),
     subscription |-> StrOrAbsent(subscription), status |-> Str("paid"),
     current_period_end |-> Absent, period_end |-> NumOrAbsent(periodEnd),
     canceled_at |-> Absent, plan |-> Absent, price |-> Absent]

Event(type, data) == [type |-> type, data |-> data]

Times == 0..MaxTime
PayloadStatuses == {"active", "past_due", "canceled"}

\* The canceled_at values an object of the given status carries: Stripe sets
\* canceled_at on every canceled subscription, and on a live one once its
\* cancellation has been requested.
CanceledAtOf(status) == IF status = "canceled" THEN 1..MaxTime ELSE Times

\* Subscription objects of the tracked subscription, without a plan reference.
PlainObjects(statuses) ==
    { SubscriptionObject(TrackedID, x[1], pe, x[2], "", "") :
        x \in UNION { {s} \X CanceledAtOf(s) : s \in statuses }, pe \in Times }

\* The same objects carrying a plan reference in either of its two shapes.
PlanObjects(statuses) ==
    { SubscriptionObject(TrackedID, x[1], pe, x[2], "price_2", "") :
        x \in UNION { {s} \X CanceledAtOf(s) : s \in statuses }, pe \in Times }
    \cup { SubscriptionObject(TrackedID, "active", 0, 0, "", "price_2") }

\* Objects of a subscription with no local row, and objects with no id.
ForeignObjects ==
    { SubscriptionObject(id, "active", 1, 0, "", "") : id \in {UntrackedID, ""} }

\* Objects of the tracked subscription with no status field, and with a
\* status the service has no name for.
OddObjects ==
    { SubscriptionObject(TrackedID, s, 1, 0, "", "") : s \in {"", "unpaid"} }

InvoiceObjects ==
    { InvoiceObject(id, pe) : id \in SubIDs \cup {""}, pe \in Times }

SubscriptionEvents ==
    { Event("customer.subscription.created", d) :
        d \in PlainObjects(PayloadStatuses) \cup ForeignObjects }
    \cup { Event("customer.subscription.updated", d) :
        d \in PlainObjects(PayloadStatuses) \cup PlanObjects(PayloadStatuses)
              \cup ForeignObjects \cup OddObjects }
    \cup { Event("customer.subscription.deleted", d) :
        d \in PlainObjects({"canceled"}) \cup ForeignObjects }
    \cup { Event("customer.subscription.trial_will_end",
                 SubscriptionObject(id, "trialing", 1, 0, "", "")) : id \in SubIDs }

InvoiceEvents ==
    { Event(t, d) : t \in {"invoice.payment_succeeded", "invoice.payment_failed"},
                    d \in InvoiceObjects }

\* Event types HandleWebhookEvent has no case for.
UnhandledEvents ==
    { Event("customer.subscription.paused",
            SubscriptionObject(TrackedID, "paused", 1, 0, "", "")),
      Event("invoice.paid", InvoiceObject(TrackedID, 1)) }

Events == SubscriptionEvents \cup InvoiceEvents \cup UnhandledEvents

\* Store and cache call outcomes of one request: no fault, or one failing call.
Envs ==
    { NoFault } \cup
    { [NoFault EXCEPT ![f] = FALSE] :
        f \in {"cacheGet", "dbGet", "dbUpdate", "cacheSet", "dbUpdate2",
               "cacheDel"} }

\* ------------------------------------------- subscription creation, retried

\* Attempts that fit into bo.MaxElapsedTime: NextBackOff answers Stop after
\* the last of them.
MaxAttempts == 4

\* http.StatusTooManyRequests, http.StatusNotImplemented.
StatusTooManyRequests == 429
StatusNotImplemented == 501

StripeErrorTypeRateLimit == "rate_limit_error"
StripeErrorTypeAPIConnection == "api_connection_error"
StripeErrorTypeAPI == "api_error"
StripeErrorTypeAuthentication == "authentication_error"
StripeErrorTypeCard == "card_error"
StripeErrorTypeInvalidRequest == "invalid_request_error"

\* stripe.ErrorCodeResourceMissing.
ErrorCodeResourceMissing == "resource_missing"

\* A *stripe.Error, by the fields the service and the client read; Code is
\* empty unless the provider names one.
StripeError(code, type) == [HTTPStatusCode |-> code, Type |-> type, Code |-> ""]

\* A nil *stripe.Error: the provider call succeeded.
NoStripeError == StripeError(0, "none")

RateLimited == StripeError(StatusTooManyRequests, StripeErrorTypeRateLimit)
ConnectionFailed == StripeError(0, StripeErrorTypeAPIConnection)
ServerError == StripeError(500, StripeErrorTypeAPI)
NotImplemented == StripeError(StatusNotImplemented, StripeErrorTypeAPI)
CardDeclined == StripeError(402, StripeErrorTypeCard)
InvalidRequest == StripeError(400, StripeErrorTypeInvalidRequest)
Unauthenticated == StripeError(401, StripeErrorTypeAuthentication)

\* The provider's answer to a call on a resource it does not have.
ResourceMissing ==
    [StripeError(404, StripeErrorTypeInvalidRequest) EXCEPT
        !.Code = ErrorCodeResourceMissing]

\* The errors the provider answers a call with.
ProviderErrors ==
    {RateLimited, ConnectionFailed, ServerError, NotImplemented, CardDeclined,
     InvalidRequest, Unauthenticated}

\* A Go error value: its message, the sentinels errors.Is finds in its chain
\* and the *stripe.Error errors.As finds there (NoStripeError: none).
GoError(text, is, as) == [text |-> text, is |-> is, as |-> as]

NilError == GoError("nil", {}, NoStripeError)

\* The error value of a *stripe.Error returned by the SDK.
FromProvider(stripeErr) == GoError("stripe error", {}, stripeErr)

\* fmt.Errorf(text + ": %w", err): err stays in the chain.
ErrorfWrap(text, err) == GoError(text, err.is, err.as)

\* A variant of ErrorfSentinel that formats the sentinel with %v as well: the
\* chain of the error it builds is empty.
ErrorfFormatted(sentinel, text, err) == GoError(text, {}, NoStripeError)

\* fmt.Errorf("%w: " + text + ": %v", sentinel, err): the chain holds the
\* sentinel alone, err is only formatted into the message.
ErrorfSentinel(sentinel, text, err) == GoError(text, {sentinel}, NoStripeError)

\* errors.As(err, &stripeErr).
errorsAs(err) == err.as

\* A variant of isRetryableStripeError that asks for a retry after every error.
RetryEveryError(err) == err # NilError

\* isRetryableStripeError.
isRetryableStripeError(err) ==
    /\ errorsAs(err) # NoStripeError
    /\ \/ errorsAs(err).HTTPStatusCode = StatusTooManyRequests
       \/ errorsAs(err).Type = StripeErrorTypeAPIConnection
       \/ /\ errorsAs(err).HTTPStatusCode >= 500
          /\ errorsAs(err).HTTPStatusCode # StatusNotImplemented

\* CreateSubscriptionInput.
CreateSubscriptionInput(user, plan, email, key) ==
    [UserID |-> user, PlanID |-> plan, UserEmail |-> email, IdempotencyKey |-> key]

\* What the provider answers during one attempt: whether Customers.Search
\* finds the customer, the error of the search, and the answers to
\* Customers.New and to Subscriptions.New.
Answer(found, search, customer, subscription) ==
    [found |-> found, search |-> search, customer |-> customer,
     subscription |-> subscription]

\* The customer is found; Subscriptions.New is answered with subscription.
CustomerFound(subscription) == Answer(TRUE, NoStripeError, NoStripeError, subscription)

\* The search finds no customer; Customers.New is answered with customer.
CustomerMissing(customer, subscription) ==
    Answer(FALSE, NoStripeError, customer, subscription)

\* A mutating call to the provider: the SDK method and the idempotency key in
\* its params ("": none).
ProviderCall(method, key) == [method |-> method, key |-> key]

\* stripeClient.CreateCustomer: one Customers.New call; its params carry the
\* context only.
CreateCustomer(answer) ==
    IF answer = NoStripeError
    THEN [id |-> "cus_1", err |-> NilError, calls |-> <<ProviderCall("Customers.New", "")>>]
    ELSE [id |-> "",
          err |-> ErrorfWrap("stripe: failed to create customer", FromProvider(answer)),
          calls |-> <<ProviderCall("Customers.New", "")>>]

\* stripeClient.GetOrCreateCustomer: the customer the search finds; a search
\* that fails with an invalid-request error is returned, after any other
\* *stripe.Error and after an empty result the customer is created.
GetOrCreateCustomer(answers) ==
    IF answers.found THEN [id |-> "cus_1", err |-> NilError, calls |-> <<>>]
    ELSE IF answers.search.Type = StripeErrorTypeInvalidRequest
    THEN [id |-> "",
          err |-> ErrorfWrap("stripe: failed to search customer",
                             FromProvider(answers.search)),
          calls |-> <<>>]
    ELSE CreateCustomer(answers.customer)

\* The id the provider gives a subscription it creates: the store has no row
\* for it.
CreatedID == UntrackedID

\* stripeClient.CreateSubscription: one Subscriptions.New call carrying the
\* idempotency key it was given.
ClientCreateSubscription(answer, idempotencyKey) ==
    IF answer = NoStripeError
    THEN [id |-> CreatedID, err |-> NilError, keys |-> <<idempotencyKey>>]
    ELSE [id |-> "",
          err |-> ErrorfWrap("stripe: failed to create subscription",
                             FromProvider(answer)),
          keys |-> <<idempotencyKey>>]

\* The mutating provider calls behind the idempotency keys sent to
\* Subscriptions.New.
NewSubscriptionCalls(keys) ==
    [i \in 1..Len(keys) |-> ProviderCall("Subscriptions.New", keys[i])]

\* What one CreateSubscription call leaves behind: its output, its error, the
\* idempotency keys it sent to Subscriptions.New, the emissions it started
\* and the mutating provider calls it made.
Created(output, err, keys, emits, calls) ==
    [output |-> output, err |-> err, keys |-> keys, emits |-> emits,
     calls |-> calls]

\* CreateSubscription after the provider call c, which followed the provider
\* calls before.
SubscriptionCreated(input, c, kafkaProducer, subscription, before) ==
    IF c.err # NilError
    THEN IF /\ errorsAs(c.err) # NoStripeError
            /\ errorsAs(c.err).Type \in {StripeErrorTypeCard,
                                         StripeErrorTypeInvalidRequest}
         THEN Created(NoSub, ErrorfSentinel("ErrPaymentFailed", "stripe message",
                                            c.err), c.keys, <<>>,
                      before \o NewSubscriptionCalls(c.keys))
         ELSE Created(NoSub, ErrorfSentinel("ErrStripeClient",
                                            "failed to create subscription", c.err),
                      c.keys, <<>>, before \o NewSubscriptionCalls(c.keys))
    ELSE Created(subscription, NilError, c.keys,
                 publishSubscriptionEvent(kafkaProducer, subscription),
                 before \o NewSubscriptionCalls(c.keys))

\* CreateSubscription after the customer lookup cus.
CustomerProcessed(input, answers, kafkaProducer, cus) ==
    IF cus.err # NilError
    THEN Created(NoSub, ErrorfSentinel("ErrStripeClient",
                                       "failed to process customer", cus.err),
                 <<>>, <<>>, cus.calls)
    ELSE SubscriptionCreated(input,
             ClientCreateSubscription(answers.subscription, input.IdempotencyKey),
             kafkaProducer,
             Subscription(CreatedID, input.UserID, input.PlanID, "incomplete",
                          NilTime, NilTime, 0),
             cus.calls)

\* PaymentService.CreateSubscription, one attempt.
CreateSubscription(input, answers, kafkaProducer) ==
    IF input.UserID = "" \/ input.PlanID = "" \/ input.UserEmail = ""
    THEN Created(NoSub, GoError("invalid input data", {"ErrInvalidInput"},
                                NoStripeError), <<>>, <<>>, <<>>)
    ELSE CustomerProcessed(input, answers, kafkaProducer,
                           GetOrCreateCustomer(answers))

\* The attempts of one CreateSubscriptionWithRetry call so far.
Run(attempts, waits, keys, emits, output, lastErr, calls) ==
    [attempts |-> attempts, waits |-> waits, keys |-> keys, emits |-> emits,
     output |-> output, lastErr |-> lastErr, calls |-> calls]

NoRun == Run(0, 0, <<>>, <<>>, NoSub, NilError, <<>>)

\* The run after one more attempt that left r.
Attempted(run, r) ==
    Run(run.attempts + 1, run.waits, run.keys \o r.keys, run.emits \o r.emits,
        r.output, r.err, run.calls \o r.calls)

\* The run after one more backoff sleep.
Waited(run) == [run EXCEPT !.waits = @ + 1]

RECURSIVE Retry(_, _, _, _)

\* backoff.Retry after an attempt: success and backoff.Permanent end the
\* loop, as does NextBackOff answering Stop; otherwise it sleeps and calls the
\* operation again.
Operation(input, script, kafkaProducer, run) ==
    IF run.lastErr = NilError THEN run
    ELSE IF ~isRetryableStripeError(run.lastErr) THEN run
    ELSE IF run.attempts >= Len(script) THEN run
    ELSE Retry(input, script, kafkaProducer, Waited(run))

\* backoff.Retry(operation, bo): script holds the provider's answers to the
\* successive attempts.
Retry(input, script, kafkaProducer, run) ==
    Operation(input, script, kafkaProducer,
              Attempted(run, CreateSubscription(input, script[run.attempts + 1],
                                                kafkaProducer)))

\* CreateSubscriptionWithRetry: (output, nil) or (nil, lastErr), with the run
\* that led there.
Returned(run) ==
    [output |-> IF run.lastErr = NilError THEN run.output ELSE NoSub,
     err |-> run.lastErr, run |-> run]

CreateSubscriptionWithRetry(input, script, kafkaProducer) ==
    Returned(Retry(input, script, kafkaProducer, NoRun))

\* The idempotency keys of the requests made.
IdempotencyKeys == {"key_1", "key_2"}

\* The requests made: complete ones, and one without a user.
Inputs ==
    { CreateSubscriptionInput("user_1", "price_1", "u1@example.com", k) :
        k \in IdempotencyKeys }
    \cup {CreateSubscriptionInput("", "price_1", "u1@example.com", "key_1")}

\* The provider's answers to one attempt of a retried call: the customer is
\* found and Subscriptions.New succeeds or fails, or the customer is missing
\* and Customers.New is rate-limited.
Answers ==
    { CustomerFound(s) : s \in ProviderErrors \cup {NoStripeError} }
    \cup {CustomerMissing(RateLimited, NoStripeError)}

Scripts == [1..MaxAttempts -> Answers]

\* The last call: its input, the provider's answers and what it returned.
NoCall ==
    [made |-> FALSE, input |-> CreateSubscriptionInput("", "", "", ""),
     script |-> <<>>, result |-> Returned(NoRun)]

\* ------------------------------------------------------------ cancellation

\* A variant of ClientCancelSubscription that reports the resource-missing
\* answer as an error like any other.
ClientCancelStrict(answer) ==
    IF answer = NoStripeError
    THEN [err |-> NilError, calls |-> <<ProviderCall("Subscriptions.Cancel", "")>>]
    ELSE [err |-> ErrorfWrap("stripe: failed to cancel subscription",
                             FromProvider(answer)),
          calls |-> <<ProviderCall("Subscriptions.Cancel", "")>>]

\* stripeClient.CancelSubscription: one Subscriptions.Cancel call, whose
\* params carry the context only; a resource-missing answer counts as done.
ClientCancelSubscription(answer) ==
    IF answer = NoStripeError \/ answer.Code = ErrorCodeResourceMissing
    THEN [err |-> NilError, calls |-> <<ProviderCall("Subscriptions.Cancel", "")>>]
    ELSE [err |-> ErrorfWrap("stripe: failed to cancel subscription",
                             FromProvider(answer)),
          calls |-> <<ProviderCall("Subscriptions.Cancel", "")>>]

\* What one CancelSubscription call leaves behind: the cache, its error, what
\* the Stripe client returned (NilError when it was not called), the mutating
\* provider calls and store writes it made and the emissions it started.
Canceled(cache, err, client, calls, emits) ==
    [cache |-> cache, err |-> err, client |-> client, calls |-> calls,
     updates |-> 0, emits |-> emits]

\* The copy of the subscription CancelSubscription publishes.
canceledEventSub(sub, now) == [sub EXCEPT !.Status = "canceled", !.CanceledAt = now]

\* CancelSubscription, steps 4 to 6: after the provider call c.
ProviderCanceled(g, c, now, kafkaProducer) ==
    IF c.err # NilError
    THEN Canceled(g.cache, "ErrStripeClient", c.err, c.calls, <<>>)
    ELSE Canceled(g.cache, "nil", c.err, c.calls,
                  publishSubscriptionEvent(kafkaProducer,
                                           canceledEventSub(g.sub, now)))

\* CancelSubscription, steps 1 to 3: after the lookup g.
OwnerVerified(g, userID, now, answer, kafkaProducer) ==
    IF g.err = "ErrNotFound"
    THEN Canceled(g.cache, "ErrSubscriptionNotFound", NilError, <<>>, <<>>)
    ELSE IF g.err # "nil"
    THEN Canceled(g.cache, "ErrInternalServer", NilError, <<>>, <<>>)
    ELSE IF g.sub.UserID # userID
    THEN Canceled(g.cache, "ErrSubscriptionNotFound", NilError, <<>>, <<>>)
    ELSE IF g.sub.Status = "canceled"
    THEN Canceled(g.cache, "nil", NilError, <<>>, <<>>)
    ELSE ProviderCanceled(g, ClientCancelSubscription(answer), now, kafkaProducer)

\* PaymentService.CancelSubscription; the idempotency key is not used.
CancelSubscription(st, userID, subscriptionID, idempotencyKey, now, env, answer, kafkaProducer) ==
    OwnerVerified(CachedGetByID(st, subscriptionID, env), userID, now, answer,
                  kafkaProducer)

\* A variant of GetSubscriptionByID that returns the subscription to any
\* user.
GetSubscriptionByIDUnchecked(st, userID, subscriptionID, env) ==
    LET g == CachedGetByID(st, subscriptionID, env)
    IN  IF g.err = "ErrNotFound"
        THEN [cache |-> g.cache, sub |-> NoSub, err |-> "ErrSubscriptionNotFound"]
        ELSE IF g.err # "nil"
        THEN [cache |-> g.cache, sub |-> NoSub, err |-> "ErrInternalServer"]
        ELSE [cache |-> g.cache, sub |-> g.sub, err |-> "nil"]

\* PaymentService.GetSubscriptionByID: the lookup, then the owner check; a
\* subscription of another user is reported as not found.
GetSubscriptionByID(st, userID, subscriptionID, env) ==
    LET g == CachedGetByID(st, subscriptionID, env)
    IN  IF g.err = "ErrNotFound"
        THEN [cache |-> g.cache, sub |-> NoSub, err |-> "ErrSubscriptionNotFound"]
        ELSE IF g.err # "nil"
        THEN [cache |-> g.cache, sub |-> NoSub, err |-> "ErrInternalServer"]
        ELSE IF g.sub.UserID # userID
        THEN [cache |-> g.cache, sub |-> NoSub, err |-> "ErrSubscriptionNotFound"]
        ELSE [cache |-> g.cache, sub |-> g.sub, err |-> "nil"]

\* The last GetSubscriptionByID call: its arguments, the stored row as the
\* call found it and what it returned.
NoGet ==
    [made |-> FALSE, at |-> 0, userID |-> "", subscriptionID |-> "",
     before |-> NoSub, sub |-> NoSub, err |-> "nil"]

\* The provider's answers to Subscriptions.Cancel.
CancelAnswers == {NoStripeError, ResourceMissing, ServerError, Unauthenticated}

\* The provider's answers to a creation made in one attempt: the customer is
\* found or created and Subscriptions.New succeeds or is declined,
\* Customers.New is rate-limited, the search fails with a rate limit (the
\* customer is then created) or with an invalid-request error.
CreateAnswers ==
    {CustomerFound(NoStripeError), CustomerFound(CardDeclined),
     CustomerMissing(NoStripeError, NoStripeError),
     CustomerMissing(RateLimited, NoStripeError),
     Answer(FALSE, RateLimited, NoStripeError, NoStripeError),
     Answer(FALSE, InvalidRequest, NoStripeError, NoStripeError)}

\* The last cancel request: when it was made, its arguments, the provider's
\* answer, the stored row as the request found it and what the call returned.
NoCancel ==
    [made |-> FALSE, at |-> 0, userID |-> "", subscriptionID |-> "", idempotencyKey |-> "",
     answer |-> NoStripeError, before |-> NoSub,
     result |-> Canceled(EmptyCache, "nil", NilError, <<>>, <<>>)]

\* ------------------------------------------------------- repository calls

\* The outcomes of the store and cache calls of one repository call: every
\* combination of a failing lookup, write, cache read, cache write and list
\* invalidation.
RepoEnvs ==
    { [NoFault EXCEPT !.cacheGet = e[1], !.dbGet = e[2], !.dbUpdate = e[3],
                      !.cacheSet = e[4], !.cacheDel = e[5]] :
        e \in BOOLEAN \X BOOLEAN \X BOOLEAN \X BOOLEAN \X BOOLEAN }

\* The structs handed to Create.
NewSubscriptions ==
    { Subscription(id, u, "price_1", "incomplete", NilTime, NilTime, 0) :
        id \in SubIDs, u \in Users }

\* The statuses written by Update.
UpdateStatuses == {"active", "canceled"}

\* What a repository call returned.
RepoResult(err, sub, subs) == [err |-> err, sub |-> sub, subs |-> subs]

\* The last repository call: the method, its arguments, the outcomes of its
\* store and cache calls, the store and the cache as it found them and what
\* it returned.
NoRepoCall ==
    [op |-> "none", id |-> "", userID |-> "", env |-> NoFault,
     before |-> [db |-> [id \in SubIDs |-> NoSub], cache |-> EmptyCache],
     result |-> RepoResult("nil", NoSub, NoList)]

\* The goroutines that call the repository at the same time.
Callers == 1..2

\* A repository call in flight: the method, the statement it has reached, the
\* id it was called with and the struct it holds (the argument of Update, the
\* row GetByID has read).
Flight(op, pc, id, sub) == [op |-> op, pc |-> pc, id |-> id, sub |-> sub]

NoFlight == Flight("none", "idle", "", NoSub)

\* ------------------------------------------------------------- event bus

\* How kafka.Writer.WriteMessages ends: the broker acknowledges the message,
\* the write fails, or the write context reaches its deadline.
WriteOutcomes == {"ok", "error", "timeout"}

\* kafkaProducer.PublishSubscriptionEvent: the message (keyed by the
\* subscription id) is on the topic when the write is acknowledged; a failed
\* or timed-out write delivers nothing and returns a wrapped error.
PublishSubscriptionEvent(delivered, topic, subscription, outcome) ==
    IF outcome = "ok"
    THEN [delivered |-> Append(delivered,
                               [topic |-> topic, key |-> subscription.SubscriptionID,
                                sub |-> subscription]),
          err |-> "nil"]
    ELSE [delivered |-> delivered,
          err |-> IF outcome = "timeout" THEN "kafka: write timeout"
                  ELSE "kafka: failed to write message"]

\* publishSubscriptionEvent with the outcome of the write: nothing without a
\* producer; one PublishSubscriptionEvent call whose error is only logged.
publishOnBus(delivered, producer, subscription, outcome) ==
    IF ~producer THEN delivered
    ELSE PublishSubscriptionEvent(delivered, TopicSubscriptionCreated,
                                  subscription, outcome).delivered

\* The subscriptions the service emits: the one CreateSubscription built and
\* the copy CancelSubscription marked canceled.
Emissions ==
    { Subscription(id, "user_1", "price_1", st, NilTime, NilTime, 0) :
        id \in SubIDs, st \in {"incomplete", "canceled"} }

\* The bus before any emission: the emissions decided on and the messages
\* delivered.
NoEmission == [decided |-> <<>>, delivered |-> <<>>]

\* --------------------------------------------------------- webhook events

\* domain.WebhookEventStatus.
WebhookEventStatusPending == "pending"
WebhookEventStatusProcessed == "processed"
WebhookEventStatusFailed == "failed"

\* domain.WebhookEvent; LastAttempt and ProcessedAt are NilTime when the
\* pointer is nil. The payload, the provider and the repository's CreatedAt
\* and UpdatedAt stamps are not kept.
WebhookEvent(id, type, status, attemptCount, lastAttempt, processedAt, errorMessage) ==
    [ID |-> id, Type |-> type, Status |-> status, AttemptCount |-> attemptCount,
     LastAttempt |-> lastAttempt, ProcessedAt |-> processedAt,
     ErrorMessage |-> errorMessage]

\* No entry under an id of the events map.
NoEvent == WebhookEvent("", "", "", 0, NilTime, NilTime, "")

\* The ids uuid.New hands out.
EventIDs == {"evt_1", "evt_2"}

\* The request types: one that processEvent dispatches and one it does not
\* know.
WebhookEventTypes == {"payment.completed", "subscription.created"}

\* InMemoryWebhookEventRepository.CreateEvent.
CreateEvent(events, event) == [events EXCEPT ![event.ID] = event]

\* InMemoryWebhookEventRepository.GetEventByID.
GetEventByID(events, id) ==
    IF id \notin DOMAIN events \/ events[id] = NoEvent
    THEN [event |-> NoEvent, err |-> "ErrNotFound"]
    ELSE [event |-> events[id], err |-> "nil"]

\* InMemoryWebhookEventRepository.UpdateEvent: the whole entry is replaced.
UpdateEvent(events, event) ==
    IF event.ID \notin DOMAIN events \/ events[event.ID] = NoEvent
    THEN [events |-> events, err |-> "ErrNotFound"]
    ELSE [events |-> [events EXCEPT ![event.ID] = event], err |-> "nil"]

\* How the services called by processEvent answer.
ProcessOutcomes == {"nil", "payment not found"}

\* processEvent: the error of the handler of the event's type; nil for a type
\* the switch does not know.
processEvent(event, outcome) ==
    IF event.Type = "payment.completed" THEN outcome ELSE "nil"

\* A variant of RecordAttempt that leaves AttemptCount as it was.
RecordAttemptUncounted(event, err, now) ==
    IF err # "nil"
    THEN [event EXCEPT !.Status = WebhookEventStatusFailed, !.ErrorMessage = err,
                       !.LastAttempt = now]
    ELSE [event EXCEPT !.Status = WebhookEventStatusProcessed, !.ProcessedAt = now,
                       !.LastAttempt = now]

\* The goroutine of ProcessWebhook after processEvent returned err: the status
\* and its detail, the attempt counted and stamped.
RecordAttempt(event, err, now) ==
    IF err # "nil"
    THEN [event EXCEPT !.Status = WebhookEventStatusFailed, !.ErrorMessage = err,
                       !.AttemptCount = @ + 1, !.LastAttempt = now]
    ELSE [event EXCEPT !.Status = WebhookEventStatusProcessed, !.ProcessedAt = now,
                       !.AttemptCount = @ + 1, !.LastAttempt = now]

\* RetryWebhookEvent: the event as it is written back before processing.
ResetForRetry(event) ==
    [event EXCEPT !.Status = WebhookEventStatusPending, !.ErrorMessage = ""]

\* The goroutines of ProcessWebhook and the RetryWebhookEvent calls.
Tasks == 1..3

\* A task: what it runs, where it stands, its copy of the event and what the
\* call returned.
Task(kind, pc, event, err) == [kind |-> kind, pc |-> pc, event |-> event, err |-> err]

IdleTask == Task("none", "idle", NoEvent, "nil")

\* ----------------------------------------------------------- API errors

\* The message of a sentinel error of the service (errors.New).
SentinelText(sentinel) ==
    CASE sentinel = "ErrSubscriptionNotFound" -> "subscription not found"
      [] sentinel = "ErrUserNotFound" -> "user not found"
      [] sentinel = "ErrPaymentFailed" -> "payment processing failed"
      [] sentinel = "ErrStripeClient" -> "stripe client error"
      [] sentinel = "ErrInternalServer" -> "internal server error"
      [] OTHER -> "invalid input data"

\* A service error: the sentinel errors.Is finds and the text of Error().
Sentinel(sentinel) == [is |-> sentinel, text |-> SentinelText(sentinel)]

\* fmt.Errorf("%w: " + detail, sentinel): the sentinel stays in the chain and
\* the detail is part of the message.
ErrorfDetail(sentinel, detail) ==
    [is |-> sentinel, text |-> SentinelText(sentinel) \o ": " \o detail]

\* Messages of provider errors and of store errors.
ProviderTexts == {"Your card was declined.", "No such price: price_9"}
StoreTexts == {"pq: connection refused", "pq: deadlock detected"}

\* The errors CreateSubscription, GetSubscriptionByID and CancelSubscription
\* return.
ServiceErrors(api) ==
    CASE api = "create" ->
            {Sentinel("ErrInvalidInput")}
            \cup {ErrorfDetail("ErrStripeClient", "failed to process customer: " \o d) :
                    d \in ProviderTexts}
            \cup {ErrorfDetail("ErrPaymentFailed", d) : d \in ProviderTexts}
            \cup {ErrorfDetail("ErrStripeClient", "failed to create subscription: " \o d) :
                    d \in ProviderTexts}
      [] api = "get" ->
            {Sentinel("ErrSubscriptionNotFound")}
            \cup {ErrorfDetail("ErrInternalServer", d) : d \in StoreTexts}
      [] OTHER ->
            {Sentinel("ErrSubscriptionNotFound")}
            \cup {ErrorfDetail("ErrInternalServer",
                               "failed to verify subscription owner: " \o d) :
                    d \in StoreTexts}
            \cup {ErrorfDetail("ErrStripeClient",
                               "failed to cancel stripe subscription: " \o d) :
                    d \in ProviderTexts}

\* mapErrorToGRPCStatus: the gRPC code and message for a service error.
mapErrorToGRPCStatus(err) ==
    CASE err.is = "ErrSubscriptionNotFound" -> [code |-> "NotFound", message |-> err.text]
      [] err.is = "ErrPaymentFailed" -> [code |-> "FailedPrecondition", message |-> err.text]
      [] err.is = "ErrUserNotFound" -> [code |-> "NotFound", message |-> err.text]
      [] err.is = "ErrStripeClient" ->
            [code |-> "Internal", message |-> "Payment provider error: " \o err.text]
      [] err.is = "ErrInternalServer" -> [code |-> "Internal", message |-> err.text]
      [] OTHER -> [code |-> "Internal", message |-> "Internal server error"]

\* The error branch of the REST handlers CreateSubscription, GetSubscription
\* and CancelSubscription: the HTTP status as the gRPC-like code and the
\* Error field of the body as the message.
restErrorResponse(api, err) ==
    CASE api = "create" ->
            IF err.is = "ErrPaymentFailed"
            THEN [code |-> "409", message |-> "Payment processing failed"]
            ELSE [code |-> "500", message |-> "Failed to create subscription"]
      [] api = "get" ->
            IF err.is = "ErrSubscriptionNotFound"
            THEN [code |-> "404", message |-> "Subscription not found"]
            ELSE [code |-> "500", message |-> "Failed to retrieve subscription"]
      [] OTHER ->
            IF err.is = "ErrSubscriptionNotFound"
            THEN [code |-> "404", message |-> "Subscription not found"]
            ELSE [code |-> "500", message |-> "Failed to cancel subscription"]

\* The response of a user-facing call that failed with err.
ErrorResponse(transport, api, err) ==
    IF transport = "grpc" THEN mapErrorToGRPCStatus(err)
    ELSE restErrorResponse(api, err)

Transports == {"rest", "grpc"}
Apis == {"create", "get", "cancel"}

\* ------------------------------------------------ subscription id of an event

\* HandleStripeWebhook, step 4: the subscription id passed to the service. A
\* non-empty string under "subscription" is taken first; else a string under
\* "id" when "object" is the string "subscription"; else none.
extractSubID(rawData) ==
    IF rawData["subscription"].k = "string" /\ rawData["subscription"].s # ""
    THEN rawData["subscription"].s
    ELSE IF /\ rawData["id"].k = "string"
            /\ rawData["object"].k = "string"
            /\ rawData["object"].s = "subscription"
         THEN rawData["id"].s
         ELSE ""

\* The event objects handed to the extraction, by the three keys it reads.
RawObjects ==
    [id : {Absent, Str(""), Str("sub_1"), Str("in_1"), Num(7)},
     subscription : {Absent, Str(""), Str("sub_2"), Num(7)},
     object : {Absent, Str("subscription"), Str("invoice"), Str("customer"), Num(7)}]

\* No extraction made yet.
NoPick == [made |-> FALSE, rawData |-> [id |-> Absent, subscription |-> Absent,
                                        object |-> Absent], subID |-> ""]

\* Deliveries recorded by the logging specification.
MaxLogged == 2

VARIABLES
    db,             \* subscriptions table: id -> row (NoSub: no such row)
    cache,          \* Redis "subscription:<id>" keys: id -> entry (NoSub: none)
    published,      \* PublishSubscriptionEvent calls made so far
    clock,          \* wall clock; one tick per delivery
    ret,            \* what the last HandleWebhookEvent returned
    updates,        \* subRepo.Update calls of the last HandleWebhookEvent
    kafkaProducer,  \* whether the service holds a Kafka producer
    last,           \* SpecLog only: the last request handled
    procs,          \* SpecConc only: the requests in flight
    http,           \* SpecHttp only: the last HTTP exchange
    call,           \* SpecRetry, SpecApi: the last subscription creation call
    cancel,         \* SpecApi only: the last CancelSubscription call
    rcall,          \* SpecRepo only: the last repository call
    bus,            \* SpecBus only: the emissions decided on and the messages delivered
    events,         \* SpecEvents only: InMemoryWebhookEventRepository.events
    tasks,          \* SpecEvents only: the goroutines and retry calls
    replies,        \* SpecErr only: the error responses sent so far
    pick,           \* SpecPick only: the last event object and the subscription id taken from it
    got,            \* SpecOwner only: the last GetSubscriptionByID call
    flight          \* SpecCoherence only: the repository calls in flight, by caller

vars == <<db, cache, published, clock, ret, updates, kafkaProducer, last, procs,
          http, call, cancel, rcall, bus, events, tasks, replies, pick, got, flight>>

\* The log entry of a request: the event, the outcomes of its store and cache
\* calls, whether the request before it carried the same event, and the
\* stored row of the tracked subscription as the request found it.
NoRequest == [ev |-> Event("none", InvoiceObject("", 0)), env |-> NoFault,
              repeat |-> FALSE, before |-> NoSub]

\* The row a subscription starts from: the struct CreateSubscription builds.
InitialSubscription ==
    Subscription(TrackedID, "user_1", "price_1", "incomplete", NilTime, NilTime, 0)

\* An HTTP request to a webhook endpoint: whether its body can be read, its
\* Stripe-Signature header ("" when missing, "bad" when malformed or not
\* matching the secret), whether the body is the JSON of an event, whether
\* the event's data.object is a JSON object, and the event it carries.
Request(body, sigHeader, envelope, object, ev) ==
    [body |-> body, sigHeader |-> sigHeader, envelope |-> envelope,
     object |-> object, ev |-> ev]

\* The last exchange: the endpoint, the request, the status code answered,
\* whether the payload was parsed and whether an event handler was called.
NoExchange ==
    [entry |-> "none",
     req |-> Request("ok", "", FALSE, FALSE, Event("none", InvoiceObject("", 0))),
     code |-> 0, parsed |-> FALSE, called |-> FALSE]

\* The requests handled at the same time.
Procs == {1, 2}

\* A request in flight: where it stands, its event, and the struct its lookup
\* returned.
IdleProc == [pc |-> "idle", ev |-> NoRequest.ev, sub |-> NoSub]

Init ==
    /\ db = [id \in SubIDs |-> IF id = TrackedID THEN InitialSubscription ELSE NoSub]
    /\ cache = EmptyCache
    /\ published = <<>>
    /\ clock = 0
    /\ ret = "none"
    /\ updates = 0
    /\ kafkaProducer \in BOOLEAN
    /\ last = NoRequest
    /\ procs = [p \in Procs |-> IdleProc]
    /\ http = NoExchange
    /\ call = NoCall
    /\ cancel = NoCancel
    /\ rcall = NoRepoCall
    /\ bus = NoEmission
    /\ events = [id \in EventIDs |-> NoEvent]
    /\ tasks = [t \in Tasks |-> IdleTask]
    /\ replies = {}
    /\ pick = NoPick
    /\ got = NoGet
    /\ flight = [c \in Callers |-> NoFlight]

\* The effects o of one HandleWebhookEvent call.
Apply(o) ==
    /\ db' = o.db
    /\ cache' = o.cache
    /\ published' = published \o o.emits
    /\ ret' = o.err
    /\ updates' = o.updates

\* One webhook request: HandleStripeWebhook hands the verified event to
\* HandleWebhookEvent, which runs to completion.
Handle(ev, env) ==
    /\ Apply(HandleWebhookEvent([db |-> db, cache |-> cache], ev.type, ev.data,
                                clock + 1, env, kafkaProducer))
    /\ clock' = clock + 1
    /\ UNCHANGED <<kafkaProducer, procs, http, call, cancel, rcall, bus, events, tasks,
                   replies, pick, got, flight>>

Deliver(ev, env) ==
    /\ clock < MaxDeliveries
    /\ Handle(ev, env)
    /\ UNCHANGED last

\* The same request, with the event and the call outcomes kept in the log.
DeliverLogged(ev, env) ==
    /\ clock < MaxLogged
    /\ Handle(ev, env)
    /\ last' = [ev |-> ev, env |-> env, repeat |-> (ev = last.ev),
                before |-> db[TrackedID]]

\* A cache key reaches its TTL (defaultCacheTTL).
CacheExpire(id) ==
    /\ cache[id] # NoSub
    /\ cache' = [cache EXCEPT ![id] = NoSub]
    /\ UNCHANGED <<db, published, clock, ret, updates, kafkaProducer, last, procs,
                   http, call, cancel, rcall, bus, events, tasks, replies, pick, got,
                   flight>>

Next ==
    \/ \E ev \in Events, env \in Envs : Deliver(ev, env)
    \/ \E id \in SubIDs : CacheExpire(id)

Spec == Init /\ [][Next]_vars

NextLog ==
    \/ \E ev \in Events, env \in Envs : DeliverLogged(ev, env)
    \/ \E id \in SubIDs : CacheExpire(id)

SpecLog == Init /\ [][NextLog]_vars

\* ------------------------------------------------- concurrent requests

\* The provider subscription id a handler looks the local row up by: the
\* invoice's "subscription" for invoice events, the object's "id" otherwise.
LookupID(ev) ==
    IF ev.type \in {"invoice.payment_succeeded", "invoice.payment_failed"}
    THEN getStringValue(ev.data, "subscription")
    ELSE getStringValue(ev.data, "id")

\* The newStatus a handler passes to findAndUpdateSubscriptionStatus.
NewStatusOf(ev) ==
    CASE ev.type = "customer.subscription.deleted" -> "canceled"
      [] ev.type = "invoice.payment_failed" -> "past_due"
      [] ev.type = "invoice.payment_succeeded" -> "active"
      [] OTHER -> getStringValue(ev.data, "status")

\* Events of the tracked subscription whose handler is one call of
\* findAndUpdateSubscriptionStatus.
ConcEvents ==
    { ev \in Events :
        /\ LookupID(ev) = TrackedID
        /\ ev.type \in {"customer.subscription.created",
                         "customer.subscription.updated",
                         "customer.subscription.deleted",
                         "invoice.payment_failed"} }

\* The lookup of request p answered g.
Loaded(p, ev, g) ==
    /\ cache' = g.cache
    /\ procs' = [procs EXCEPT ![p] = [pc |-> "loaded", ev |-> ev, sub |-> g.sub]]

\* A request arrives and findAndUpdateSubscriptionStatus looks the row up
\* (step 1 of the function).
StartReconcile(p, ev) ==
    /\ procs[p].pc = "idle"
    /\ Loaded(p, ev, CachedGetByID([db |-> db, cache |-> cache], LookupID(ev), NoFault))
    /\ UNCHANGED <<db, published, clock, ret, updates, kafkaProducer, last, http,
                   call, cancel, rcall, bus, events, tasks, replies, pick, got, flight>>

\* The effects of a request whose merge and write answered r.
Finished(ev, r) ==
    /\ db' = r.db
    /\ cache' = r.cache
    /\ updates' = r.updates
    /\ ret' = IgnoreNotFound(r.err)
    /\ published' = IF ev.type = "customer.subscription.deleted"
                    THEN published \o publishSubscriptionEvent(
                             kafkaProducer, EventSub(r.sub, clock + 1))
                    ELSE published

\* The same request merges the event into the struct it holds and, when
\* something changed, writes it (steps 2 and 3); the deleted handler then
\* publishes.
FinishReconcile(p) ==
    /\ procs[p].pc = "loaded"
    /\ Finished(procs[p].ev,
                PersistMerged([db |-> db, cache |-> cache],
                              [cache |-> cache, sub |-> procs[p].sub],
                              MergeWebhookData(procs[p].sub, NewStatusOf(procs[p].ev),
                                               procs[p].ev.data),
                              clock + 1, NoFault))
    /\ clock' = clock + 1
    /\ procs' = [procs EXCEPT ![p].pc = "done"]
    /\ UNCHANGED <<kafkaProducer, last, http, call, cancel, rcall, bus, events, tasks,
                   replies, pick, got, flight>>

NextConc ==
    \/ \E p \in Procs, ev \in ConcEvents : StartReconcile(p, ev)
    \/ \E p \in Procs : FinishReconcile(p)

SpecConc == Init /\ [][NextConc]_vars

\* ------------------------------------------------------- HTTP endpoints

StatusOK == 200
StatusBadRequest == 400
StatusInternalServerError == 500

\* webhook.ConstructEvent: the signature is validated against the secret,
\* then the body is parsed as an event.
ConstructEvent(req) ==
    IF req.sigHeader # "good" THEN "signature_error"
    ELSE IF ~req.envelope THEN "parse_error"
    ELSE "nil"

\* HandleStripeWebhook returns before the service is called.
Rejected(st, code, parsed) ==
    [code |-> code, parsed |-> parsed, called |-> FALSE,
     out |-> Outcome(st.db, st.cache, "none", <<>>, 0)]

\* HandleStripeWebhook, steps 5 and 6: the answer for what the service left.
Responded(o) ==
    [code |-> IF o.err = "nil" THEN StatusOK ELSE StatusInternalServerError,
     parsed |-> TRUE, called |-> TRUE, out |-> o]

\* WebhookHandler.HandleStripeWebhook of internal/http/handlers.
HandleStripeWebhook(st, req, now, env, producer) ==
    IF req.body # "ok" THEN Rejected(st, StatusBadRequest, FALSE)
    ELSE IF req.sigHeader = "" THEN Rejected(st, StatusBadRequest, FALSE)
    ELSE IF ConstructEvent(req) # "nil" THEN Rejected(st, StatusBadRequest, FALSE)
    ELSE IF ~req.object THEN Rejected(st, StatusInternalServerError, TRUE)
    ELSE Responded(HandleWebhookEvent(st, req.ev.type, req.ev.data, now, env,
                                      producer))

\* stripe.WebhookHandler.VerifySignature: the header must be present and the
\* body readable; the signature itself is not checked.
VerifySignature(req) ==
    IF req.sigHeader = "" THEN "no_signature"
    ELSE IF req.body # "ok" THEN "read_error"
    ELSE "nil"

\* The event types stripe.WebhookHandler.HandleWebhook has a case for.
IntegrationTypes ==
    {"payment_intent.succeeded", "payment_intent.payment_failed",
     "payment_intent.canceled", "charge.refunded",
     "customer.created", "customer.updated", "customer.deleted"}

\* stripe.WebhookHandler.HandleWebhook: the status code, whether the payload
\* was parsed and whether a PaymentEventHandler or CustomerEventHandler method
\* was called; handlerOk is what that method answers.
HandleWebhook(req, handlerOk) ==
    IF VerifySignature(req) # "nil"
    THEN [code |-> StatusBadRequest, parsed |-> FALSE, called |-> FALSE]
    ELSE IF ~req.envelope
    THEN [code |-> StatusBadRequest, parsed |-> TRUE, called |-> FALSE]
    ELSE IF req.ev.type \notin IntegrationTypes
    THEN [code |-> StatusOK, parsed |-> TRUE, called |-> FALSE]
    ELSE IF ~req.object
    THEN [code |-> StatusInternalServerError, parsed |-> TRUE, called |-> FALSE]
    ELSE [code |-> IF handlerOk THEN StatusOK ELSE StatusInternalServerError,
          parsed |-> TRUE, called |-> TRUE]

\* An event that changes the tracked row when it is handled.
ProbeEvent ==
    Event("customer.subscription.updated",
          SubscriptionObject(TrackedID, "active", 1, 0, "", ""))

Bodies == {"ok", "unreadable"}
SigHeaders == {"", "bad", "good"}

\* Verified, well-formed requests carrying each event.
GoodRequests == { Request("ok", "good", TRUE, TRUE, ev) : ev \in Events }

\* Requests that are unreadable, unsigned, wrongly signed or malformed.
BadRequests ==
    { Request(b, s, e, o, ProbeEvent) :
        b \in Bodies, s \in SigHeaders, e \in BOOLEAN, o \in BOOLEAN }
    \ GoodRequests

Requests == GoodRequests \cup BadRequests

\* Requests to the integration endpoint.
IntegrationRequests ==
    { Request(b, s, e, o, Event(t, InvoiceObject("", 0))) :
        b \in Bodies, s \in SigHeaders, e \in BOOLEAN, o \in BOOLEAN,
        t \in {"payment_intent.succeeded", "customer.created", "invoice.paid"} }

\* Requests handled by the HTTP specification.
MaxRequests == 2

\* The effects of one HandleStripeWebhook call that answered rp.
Served(req, env, rp) ==
    /\ Apply(rp.out)
    /\ http' = [entry |-> "stripe", req |-> req, code |-> rp.code,
                parsed |-> rp.parsed, called |-> rp.called]
    /\ last' = [ev |-> req.ev, env |-> env, repeat |-> (req.ev = last.ev),
                before |-> db[TrackedID]]

\* One request to the endpoint served by HandleStripeWebhook.
Receive(req, env) ==
    /\ clock < MaxRequests
    /\ Served(req, env,
              HandleStripeWebhook([db |-> db, cache |-> cache], req, clock + 1,
                                  env, kafkaProducer))
    /\ clock' = clock + 1
    /\ UNCHANGED <<kafkaProducer, procs, call, cancel, rcall, bus, events, tasks, replies,
                   pick, got, flight>>

\* The answer rp of one HandleWebhook call.
Answered(req, rp) ==
    http' = [entry |-> "integration", req |-> req, code |-> rp.code,
             parsed |-> rp.parsed, called |-> rp.called]

\* One request to the endpoint served by stripe.WebhookHandler.
ReceiveIntegration(req, handlerOk) ==
    /\ clock < MaxRequests
    /\ Answered(req, HandleWebhook(req, handlerOk))
    /\ clock' = clock + 1
    /\ UNCHANGED <<db, cache, published, ret, updates, kafkaProducer, last, procs,
                   call, cancel, rcall, bus, events, tasks, replies, pick, got, flight>>

NextHttp ==
    \/ \E req \in GoodRequests, env \in Envs : Receive(req, env)
    \/ \E req \in BadRequests : Receive(req, NoFault)
    \/ \E req \in IntegrationRequests, handlerOk \in BOOLEAN :
          ReceiveIntegration(req, handlerOk)
    \/ \E id \in SubIDs : CacheExpire(id)

SpecHttp == Init /\ [][NextHttp]_vars

\* ---------------------------------------------------------- creation calls

\* The effects of one CreateSubscriptionWithRetry call that returned rt.
Called(input, script, rt) ==
    /\ call' = [made |-> TRUE, input |-> input, script |-> script, result |-> rt]
    /\ published' = published \o rt.run.emits

\* One CreateSubscriptionWithRetry call, run to its return; the provider
\* answers its attempts as script says.
Subscribe(input, script) ==
    /\ Called(input, script, CreateSubscriptionWithRetry(input, script, kafkaProducer))
    /\ UNCHANGED <<db, cache, clock, ret, updates, kafkaProducer, last, procs, http,
                   cancel, rcall, bus, events, tasks, replies, pick, got, flight>>

\* One call is followed to its return.
NextRetry ==
    /\ ~call.made
    /\ \E input \in Inputs, script \in Scripts : Subscribe(input, script)

SpecRetry == Init /\ [][NextRetry]_vars

\* ------------------------------------------------------------- API calls

\* Requests handled by the API specification.
MaxCalls == 3

\* One CreateSubscription call, as the HTTP and gRPC handlers make it: a
\* single attempt; the store is not written.
Create(input, answers) ==
    /\ clock < MaxCalls
    /\ Called(input, <<answers>>,
              Returned(Attempted(NoRun, CreateSubscription(input, answers,
                                                          kafkaProducer))))
    /\ clock' = clock + 1
    /\ UNCHANGED <<db, cache, ret, updates, kafkaProducer, last, procs, http, cancel, rcall,
                   bus, events, tasks, replies, pick, got, flight>>

\* The effects of one CancelSubscription call that returned rc.
CancelReturned(userID, subscriptionID, idempotencyKey, answer, rc) ==
    /\ cancel' = [made |-> TRUE, at |-> clock + 1, userID |-> userID,
                  subscriptionID |-> subscriptionID,
                  idempotencyKey |-> idempotencyKey, answer |-> answer,
                  before |-> db[subscriptionID], result |-> rc]
    /\ cache' = rc.cache
    /\ published' = published \o rc.emits

\* One CancelSubscription call, run to its return.
Cancel(userID, subscriptionID, idempotencyKey, env, answer) ==
    /\ clock < MaxCalls
    /\ CancelReturned(userID, subscriptionID, idempotencyKey, answer,
                      CancelSubscription([db |-> db, cache |-> cache], userID,
                                         subscriptionID, idempotencyKey,
                                         clock + 1, env, answer, kafkaProducer))
    /\ clock' = clock + 1
    /\ UNCHANGED <<db, ret, updates, kafkaProducer, last, procs, http, call, rcall, bus,
                   events, tasks, replies, pick, got, flight>>

\* The store and cache faults of a cancel request: those of its lookup.
LookupEnvs == {env \in Envs : env.dbUpdate /\ env.dbUpdate2 /\ env.cacheDel}

\* The webhook events delivered between API calls: the provider's reports of
\* a cancellation and of an activation of the tracked subscription.
ApiEvents ==
    {ev \in SubscriptionEvents :
        /\ getStringValue(ev.data, "id") = TrackedID
        /\ \/ ev.type = "customer.subscription.deleted"
           \/ /\ ev.type = "customer.subscription.updated"
              /\ ev.data \in PlainObjects({"active"})
              /\ getInt64Value(ev.data, "canceled_at") = 0}

\* The store and cache faults of those deliveries: none, or a failed cache
\* write.
DeliveryEnvs ==
    {env \in Envs : env.cacheGet /\ env.dbGet /\ env.dbUpdate /\ env.dbUpdate2
                     /\ env.cacheDel}

\* One webhook request between API calls.
DeliverApi(ev, env) ==
    /\ clock < MaxCalls
    /\ Handle(ev, env)
    /\ UNCHANGED last

NextApi ==
    \/ \E input \in Inputs, answers \in CreateAnswers : Create(input, answers)
    \/ \E userID \in Users, subscriptionID \in SubIDs,
          idempotencyKey \in IdempotencyKeys, env \in LookupEnvs,
          answer \in CancelAnswers :
          Cancel(userID, subscriptionID, idempotencyKey, env, answer)
    \/ \E ev \in ApiEvents, env \in DeliveryEnvs : DeliverApi(ev, env)
    \/ \E id \in SubIDs : CacheExpire(id)

SpecApi == Init /\ [][NextApi]_vars

\* ------------------------------------------------------- repository calls

\* Calls handled by the repository specification.
MaxRepoCalls == 2

\* The effects of one repository call that left the store and the cache as r
\* says.
RepoCalled(op, id, userID, env, r, result) ==
    /\ clock' = clock + 1
    /\ db' = r.db
    /\ cache' = r.cache
    /\ rcall' = [op |-> op, id |-> id, userID |-> userID, env |-> env,
                 before |-> [db |-> db, cache |-> cache], result |-> result]
    /\ UNCHANGED <<published, ret, updates, kafkaProducer, last, procs, http, call,
                   cancel, bus, events, tasks, replies, pick, got, flight>>

\* A Create or Update call that returned r.
Written(op, sub, env, r) ==
    RepoCalled(op, sub.SubscriptionID, sub.UserID, env, r,
               RepoResult(r.err, r.sub, NoList))

\* CachedSubscriptionRepository.Create(sub).
CallCreate(sub, env) ==
    /\ clock < MaxRepoCalls
    /\ Written("Create", sub, env,
               CachedCreate([db |-> db, cache |-> cache], sub, clock + 1,
                            env.dbUpdate, env.cacheSet, env.cacheDel))

\* CachedSubscriptionRepository.Update(sub): sub is the stored row with a new
\* status.
CallUpdate(id, status, env) ==
    /\ clock < MaxRepoCalls
    /\ db[id] # NoSub
    /\ Written("Update", [db[id] EXCEPT !.Status = status], env,
               CachedUpdate([db |-> db, cache |-> cache],
                            [db[id] EXCEPT !.Status = status], clock + 1,
                            env.dbUpdate, env.cacheSet, env.cacheDel))

\* CachedSubscriptionRepository.GetByID(id).
GotByID(id, env, g) ==
    RepoCalled("GetByID", id, "", env, [db |-> db, cache |-> g.cache],
               RepoResult(g.err, g.sub, NoList))

CallGetByID(id, env) ==
    /\ clock < MaxRepoCalls
    /\ GotByID(id, env, CachedGetByID([db |-> db, cache |-> cache], id, env))

\* CachedSubscriptionRepository.GetByUserID(userID).
GotByUserID(userID, env, g) ==
    RepoCalled("GetByUserID", "", userID, env, [db |-> db, cache |-> g.cache],
               RepoResult(g.err, NoSub, g.subs))

CallGetByUserID(userID, env) ==
    /\ clock < MaxRepoCalls
    /\ GotByUserID(userID, env,
                   CachedGetByUserID([db |-> db, cache |-> cache], userID, env))

\* A user's list key reaches its TTL (defaultCacheTTL).
ListExpire(userID) ==
    /\ cache[userSubscriptionsKey(userID)] # NoList
    /\ cache' = [cache EXCEPT ![userSubscriptionsKey(userID)] = NoList]
    /\ UNCHANGED <<db, published, clock, ret, updates, kafkaProducer, last, procs,
                   http, call, cancel, rcall, bus, events, tasks, replies, pick, got,
                   flight>>

NextRepo ==
    \/ \E sub \in NewSubscriptions, env \in RepoEnvs : CallCreate(sub, env)
    \/ \E id \in SubIDs, status \in UpdateStatuses, env \in RepoEnvs :
          CallUpdate(id, status, env)
    \/ \E id \in SubIDs, env \in RepoEnvs : CallGetByID(id, env)
    \/ \E userID \in Users, env \in RepoEnvs : CallGetByUserID(userID, env)
    \/ \E id \in SubIDs : CacheExpire(id)
    \/ \E userID \in Users : ListExpire(userID)

SpecRepo == Init /\ [][NextRepo]_vars

\* -------------------------------------------------------------- event bus

\* Emissions handled by the bus specification.
MaxEmissions == 3

\* The service decides to emit subscription and publishSubscriptionEvent runs
\* to its return.
Emit(subscription, outcome) ==
    /\ Len(bus.decided) < MaxEmissions
    /\ bus' = [decided |-> Append(bus.decided, subscription),
               delivered |-> publishOnBus(bus.delivered, kafkaProducer,
                                          subscription, outcome)]
    /\ UNCHANGED <<db, cache, published, clock, ret, updates, kafkaProducer, last, procs,
                   http, call, cancel, rcall, events, tasks, replies, pick, got,
                   flight>>

NextBus ==
    \E subscription \in Emissions, outcome \in WriteOutcomes :
        Emit(subscription, outcome)

SpecBus == Init /\ [][NextBus]_vars

\* --------------------------------------------------------- webhook events

\* What the steps of the webhook event service leave alone.
EventsOnly ==
    UNCHANGED <<db, cache, published, ret, updates, kafkaProducer, last, procs, http,
                call, cancel, rcall, bus, replies, pick, got, flight>>

\* ProcessWebhook(req): the event is stored as pending under a fresh id, the
\* goroutine is started with the stored copy and the call returns nil.
ProcessWebhook(t, id, type) ==
    /\ tasks[t].pc = "idle"
    /\ events[id] = NoEvent
    /\ events' = CreateEvent(events, WebhookEvent(id, type, WebhookEventStatusPending,
                                                  0, NilTime, NilTime, ""))
    /\ tasks' = [tasks EXCEPT ![t] =
                    Task("goroutine", "processing",
                         WebhookEvent(id, type, WebhookEventStatusPending,
                                      0, NilTime, NilTime, ""), "nil")]
    /\ UNCHANGED clock
    /\ EventsOnly

\* The goroutine: processEvent returns and the attempt is recorded in the
\* goroutine's copy.
GoProcessed(t, outcome) ==
    /\ tasks[t].kind = "goroutine"
    /\ tasks[t].pc = "processing"
    /\ clock' = clock + 1
    /\ tasks' = [tasks EXCEPT ![t] =
                    Task("goroutine", "updating",
                         RecordAttempt(tasks[t].event,
                                       processEvent(tasks[t].event, outcome),
                                       clock + 1),
                         processEvent(tasks[t].event, outcome))]
    /\ UNCHANGED events
    /\ EventsOnly

\* The goroutine: repo.UpdateEvent with its copy; an error is only logged.
GoUpdated(t) ==
    /\ tasks[t].kind = "goroutine"
    /\ tasks[t].pc = "updating"
    /\ events' = UpdateEvent(events, tasks[t].event).events
    /\ tasks' = [tasks EXCEPT ![t].pc = "done"]
    /\ UNCHANGED clock
    /\ EventsOnly

\* RetryWebhookEvent(id) up to its status check: the lookup fails, the event
\* is pending, or the call goes on with the reset copy.
RetryRead(t, id) ==
    /\ tasks[t].pc = "idle"
    /\ tasks' = [tasks EXCEPT ![t] =
                    IF GetEventByID(events, id).err # "nil"
                    THEN Task("retry", "done", NoEvent, GetEventByID(events, id).err)
                    ELSE IF events[id].Status = WebhookEventStatusPending
                    THEN Task("retry", "done", events[id],
                              "webhook event is already being processed")
                    ELSE Task("retry", "reset", ResetForRetry(events[id]), "nil")]
    /\ UNCHANGED <<events, clock, replies, pick, got, flight>>
    /\ EventsOnly

\* RetryWebhookEvent: repo.UpdateEvent with the reset copy.
RetryReset(t) ==
    /\ tasks[t].kind = "retry"
    /\ tasks[t].pc = "reset"
    /\ events' = UpdateEvent(events, tasks[t].event).events
    /\ tasks' = [tasks EXCEPT ![t].pc =
                    IF UpdateEvent(events, tasks[t].event).err # "nil"
                    THEN "done" ELSE "processing",
                              ![t].err = UpdateEvent(events, tasks[t].event).err]
    /\ UNCHANGED clock
    /\ EventsOnly

\* RetryWebhookEvent: processEvent returns and the call returns its error.
RetryProcessed(t, outcome) ==
    /\ tasks[t].kind = "retry"
    /\ tasks[t].pc = "processing"
    /\ tasks' = [tasks EXCEPT ![t].pc = "done",
                              ![t].err = processEvent(tasks[t].event, outcome)]
    /\ UNCHANGED <<events, clock, replies, pick, got, flight>>
    /\ EventsOnly

\* The steps that a started goroutine or call takes by itself.
TaskStep ==
    \E t \in Tasks :
        \/ \E outcome \in ProcessOutcomes : GoProcessed(t, outcome)
        \/ GoUpdated(t)
        \/ RetryReset(t)
        \/ \E outcome \in ProcessOutcomes : RetryProcessed(t, outcome)

NextEvents ==
    \/ \E t \in Tasks, id \in EventIDs, type \in WebhookEventTypes :
          ProcessWebhook(t, id, type)
    \/ \E t \in Tasks, id \in EventIDs : RetryRead(t, id)
    \/ TaskStep

\* Every started goroutine and call is scheduled until it returns.
SpecEvents == Init /\ [][NextEvents]_vars /\ WF_vars(TaskStep)

\* ------------------------------------------------------------ API errors

\* Failed calls kept by the error specification.
MaxReplies == 2

\* A user-facing call fails in the service with err and the handler answers.
Fail(transport, api, err) ==
    /\ Cardinality(replies) < MaxReplies
    /\ replies' = replies \cup
                    {[transport |-> transport, api |-> api, err |-> err,
                      response |-> ErrorResponse(transport, api, err)]}
    /\ UNCHANGED <<db, cache, published, clock, ret, updates, kafkaProducer, last, procs,
                   http, call, cancel, rcall, bus, events, tasks, pick, got, flight>>

NextErr ==
    \E transport \in Transports, api \in Apis :
        \E err \in ServiceErrors(api) : Fail(transport, api, err)

SpecErr == Init /\ [][NextErr]_vars

\* ------------------------------------------------ subscription id of an event

\* HandleStripeWebhook determines the subscription id of the event object
\* rawData.
Pick(rawData) ==
    /\ pick' = [made |-> TRUE, rawData |-> rawData, subID |-> extractSubID(rawData)]
    /\ UNCHANGED <<db, cache, published, clock, ret, updates, kafkaProducer, last, procs,
                   http, call, cancel, rcall, bus, events, tasks, replies, got, flight>>

NextPick == \E rawData \in RawObjects : Pick(rawData)

SpecPick == Init /\ [][NextPick]_vars

\* ---------------------------------------------------------------- ownership

\* The effects of one GetSubscriptionByID call that returned g.
GetReturned(userID, subscriptionID, g) ==
    /\ got' = [made |-> TRUE, at |-> clock', userID |-> userID,
               subscriptionID |-> subscriptionID, before |-> db[subscriptionID],
               sub |-> g.sub, err |-> g.err]
    /\ cache' = g.cache

\* One GetSubscriptionByID call.
Get(userID, subscriptionID, env) ==
    /\ clock < MaxCalls
    /\ clock' = clock + 1
    /\ GetReturned(userID, subscriptionID,
                   GetSubscriptionByID([db |-> db, cache |-> cache], userID,
                                       subscriptionID, env))
    /\ UNCHANGED <<db, published, ret, updates, kafkaProducer, last, procs, http, call,
                   cancel, rcall, bus, events, tasks, replies, pick, flight>>

NextOwner ==
    \/ \E userID \in Users, subscriptionID \in SubIDs, env \in LookupEnvs :
          Get(userID, subscriptionID, env)
    \/ \E userID \in Users, subscriptionID \in SubIDs,
          idempotencyKey \in IdempotencyKeys, env \in LookupEnvs,
          answer \in CancelAnswers :
          Cancel(userID, subscriptionID, idempotencyKey, env, answer)
    \/ \E id \in SubIDs : CacheExpire(id)

SpecOwner == Init /\ [][NextOwner]_vars

\* ------------------------------------------------- concurrent repository calls

\* The calls started over a behaviour.
MaxFlights == 3

\* What the steps of a repository call leave alone.
FlightOnly ==
    UNCHANGED <<published, ret, updates, kafkaProducer, last, procs, http, call,
                cancel, rcall, bus, events, tasks, replies, pick, got>>

\* A caller enters CachedSubscriptionRepository.GetByID(id).
StartGetByID(c, id) ==
    /\ clock < MaxFlights
    /\ flight[c].pc = "idle"
    /\ clock' = clock + 1
    /\ flight' = [flight EXCEPT ![c] = Flight("GetByID", "cache", id, NoSub)]
    /\ UNCHANGED <<db, cache>>
    /\ FlightOnly

\* GetByID reads the cache: a hit returns the cached struct, a miss goes on
\* to the store.
GetCached(c) ==
    /\ flight[c].op = "GetByID"
    /\ flight[c].pc = "cache"
    /\ flight' = [flight EXCEPT ![c] =
                     IF GetCachedSubscription(cache, flight[c].id, TRUE) # NoSub
                     THEN NoFlight
                     ELSE [@ EXCEPT !.pc = "store"]]
    /\ UNCHANGED <<db, cache, clock>>
    /\ FlightOnly

\* GetByID reads the store: an error returns it, a row is kept for the fill.
GetStored(c, dbOk) ==
    /\ flight[c].op = "GetByID"
    /\ flight[c].pc = "store"
    /\ flight' = [flight EXCEPT ![c] =
                     LET r == RepoGetByID(db, flight[c].id, dbOk)
                     IN  IF r.err # "nil" THEN NoFlight
                         ELSE [@ EXCEPT !.pc = "fill", !.sub = r.sub]]
    /\ UNCHANGED <<db, cache, clock>>
    /\ FlightOnly

\* GetByID caches the row it has read and returns it.
GetFilled(c) ==
    /\ flight[c].op = "GetByID"
    /\ flight[c].pc = "fill"
    /\ cache' = CacheSubscription(cache, flight[c].sub, TRUE)
    /\ flight' = [flight EXCEPT ![c] = NoFlight]
    /\ UNCHANGED <<db, clock>>
    /\ FlightOnly

\* A caller enters CachedSubscriptionRepository.Update with the stored row
\* and a new status.
StartUpdate(c, id, status) ==
    /\ clock < MaxFlights
    /\ flight[c].pc = "idle"
    /\ db[id] # NoSub
    /\ clock' = clock + 1
    /\ flight' = [flight EXCEPT ![c] =
                     Flight("Update", "store", id, [db[id] EXCEPT !.Status = status])]
    /\ UNCHANGED <<db, cache>>
    /\ FlightOnly

\* Update writes the store: an error returns it, otherwise the stamped struct
\* is kept for the cache.
UpdateStored(c, dbOk) ==
    /\ flight[c].op = "Update"
    /\ flight[c].pc = "store"
    /\ LET r == RepoUpdate(db, flight[c].sub, clock, dbOk)
       IN  /\ db' = r.db
           /\ flight' = [flight EXCEPT ![c] =
                            IF r.err # "nil" THEN NoFlight
                            ELSE [@ EXCEPT !.pc = "cache", !.sub = r.sub]]
    /\ UNCHANGED <<cache, clock>>
    /\ FlightOnly

\* Update caches the struct it has written.
UpdateCached(c) ==
    /\ flight[c].op = "Update"
    /\ flight[c].pc = "cache"
    /\ cache' = CacheSubscription(cache, flight[c].sub, TRUE)
    /\ flight' = [flight EXCEPT ![c].pc = "list"]
    /\ UNCHANGED <<db, clock>>
    /\ FlightOnly

\* Update deletes the list key of the user and returns.
UpdateInvalidated(c) ==
    /\ flight[c].op = "Update"
    /\ flight[c].pc = "list"
    /\ cache' = InvalidateUserSubscriptionsCache(cache, flight[c].sub.UserID, TRUE)
    /\ flight' = [flight EXCEPT ![c] = NoFlight]
    /\ UNCHANGED <<db, clock>>
    /\ FlightOnly

NextCoherence ==
    \/ \E c \in Callers, id \in SubIDs : StartGetByID(c, id)
    \/ \E c \in Callers : GetCached(c)
    \/ \E c \in Callers, dbOk \in BOOLEAN : GetStored(c, dbOk)
    \/ \E c \in Callers : GetFilled(c)
    \/ \E c \in Callers, id \in SubIDs, status \in UpdateStatuses :
          StartUpdate(c, id, status)
    \/ \E c \in Callers, dbOk \in BOOLEAN : UpdateStored(c, dbOk)
    \/ \E c \in Callers : UpdateCached(c)
    \/ \E c \in Callers : UpdateInvalidated(c)

SpecCoherence == Init /\ [][NextCoherence]_vars

\* ------------------------------------------------------------------ claims

\* The stored row of the tracked subscription.
Stored == db[TrackedID]

\* A step that handles a request.
HandleStep == clock' = clock + 1

\* A step that handles a request which succeeds in all its calls and carries
\* the event of the request before it, itself handled without a fault and
\* acknowledged.
ReplayStep ==
    /\ HandleStep
    /\ last'.repeat
    /\ last'.env = NoFault
    /\ last.env = NoFault
    /\ ret = "nil"

\* C1: a second application of the same event to a subscription that already
\* reflects the first makes no subRepo.Update call and leaves every stored
\* field, updatedAt included, as it was.
C1_IdempotentReplay ==
    [][ReplayStep => (updates' = 0 /\ db' = db)]_vars

\* C2: over the deliveries of one event, at most one emission is handed to
\* the producer.
C2_AtMostOneEmission ==
    (last.repeat /\ clock = 2) => Len(published) <= 1

\* An event for the tracked subscription that is no cancellation: created or
\* updated with a status other than canceled and no canceled_at, or an
\* invoice payment event.
NonCancelEvent(ev) ==
    /\ LookupID(ev) = TrackedID
    /\ \/ /\ ev.type \in {"customer.subscription.created",
                          "customer.subscription.updated"}
          /\ getStringValue(ev.data, "status") # "canceled"
          /\ getTimeValueFromUnix(ev.data, "canceled_at") = NilTime
       \/ ev.type \in {"invoice.payment_succeeded", "invoice.payment_failed"}

\* C3: once the stored status is canceled, a non-cancel event leaves the
\* status and canceledAt as they were.
C3_TerminalCanceled ==
    [][(HandleStep /\ Stored.Status = "canceled" /\ NonCancelEvent(last'.ev))
        => (Stored'.Status = "canceled" /\ Stored'.CanceledAt = Stored.CanceledAt)]_vars

\* C4: once canceledAt is set, no later event overwrites it: the value
\* received first stays the stored one.
C4_FirstWriteWins ==
    [][Stored.CanceledAt # NilTime => Stored'.CanceledAt = Stored.CanceledAt]_vars

\* C5: over events applied one after another the stored period end never
\* decreases.
C5_MonotonicPeriod ==
    [][Stored'.ExpiresAt >= Stored.ExpiresAt]_vars

\* What a row holds apart from its modification time.
Content(sub) == [sub EXCEPT !.UpdatedAt = 0]

\* The row left by handling ev after a request that left o.
HandledAfter(o, ev) ==
    HandleWebhookEvent([db |-> o.db, cache |-> o.cache], ev.type, ev.data, 2,
                       NoFault, kafkaProducer).db[TrackedID]

\* The row left by handling ev1 and then ev2, one after the other, starting
\* from the initial row and an empty cache.
SerialResult(ev1, ev2) ==
    HandledAfter(
        HandleWebhookEvent(
            [db |-> [id \in SubIDs |-> IF id = TrackedID
                                       THEN InitialSubscription ELSE NoSub],
             cache |-> EmptyCache],
            ev1.type, ev1.data, 1, NoFault, kafkaProducer),
        ev2)

\* C6: when two reconciliations of the same subscription interleave, the row
\* they leave is the one that handling the two events in some serial order
\* leaves.
C6_NoLostUpdate ==
    (\A p \in Procs : procs[p].pc = "done")
        => \/ Content(Stored) = Content(SerialResult(procs[1].ev, procs[2].ev))
           \/ Content(Stored) = Content(SerialResult(procs[2].ev, procs[1].ev))

\* C7: the stored status is canceled exactly when canceledAt is set.
C7_CanceledIffCanceledAt ==
    Stored.Status = "canceled" <=> Stored.CanceledAt # NilTime

\* The status names of the state machine: the interim status a new row
\* carries ("incomplete") is its pending state.
MachineState(status) == IF status = "incomplete" THEN "pending" ELSE status

MachineStates == {"pending", "trialing", "active", "past_due", "paused", "canceled"}

\* The edges of the subscription state machine.
Edges ==
    { <<"pending", "trialing">>, <<"pending", "active">>,
      <<"trialing", "past_due">>, <<"active", "past_due">>,
      <<"past_due", "active">>,
      <<"active", "paused">>, <<"paused", "active">> }
    \cup { <<s, "canceled">> : s \in MachineStates \ {"canceled"} }

\* C8: every change of the stored status is an edge of the state machine.
C8_OnlyMachineEdges ==
    [][Stored'.Status # Stored.Status
        => <<MachineState(Stored.Status), MachineState(Stored'.Status)>> \in Edges]_vars

\* The request of a step looks up a subscription that has no local row: the
\* event is of a handled type and the lookup by its id reports not-found.
NotFoundStep ==
    /\ HandleStep
    /\ last'.ev.type \in HandledTypes
    /\ LookupID(last'.ev) # ""
    /\ CachedGetByID([db |-> db, cache |-> cache], LookupID(last'.ev),
                     last'.env).err = "ErrNotFound"

\* C9: an event of a handled type whose subscription has no local row is
\* acknowledged with success, writes nothing to the store and emits nothing.
C9_NotFoundIsNoOp ==
    [][NotFoundStep
        => (ret' = "nil" /\ updates' = 0 /\ db' = db /\ published' = published)]_vars

\* An event of a handled type has been delivered for a subscription with no
\* local row and acknowledged.
C9_NotFoundHandled ==
    /\ last.ev.type \in HandledTypes
    /\ LookupID(last.ev) = UntrackedID
    /\ last.env = NoFault
    /\ ret = "nil"

\* C10: an event of a type with no case is acknowledged with success and
\* leaves the subscription rows, the cache and the published events as they
\* were.
C10_UnhandledIsNoOp ==
    [][(HandleStep /\ last'.ev.type \notin HandledTypes)
        => (ret' = "nil" /\ db' = db /\ cache' = cache /\ published' = published)]_vars

\* An event of a type with no case has been delivered and acknowledged.
C10_UnhandledDelivered ==
    /\ last.ev \in UnhandledEvents
    /\ ret = "nil"

\* The cache entry of the tracked subscription is absent or carries what the
\* stored row carries.
CacheFresh(c, row) ==
    \/ c = NoSub
    \/ /\ c.Status = row.Status
       /\ c.ExpiresAt = row.ExpiresAt
       /\ c.CanceledAt = row.CanceledAt
       /\ c.UpdatedAt = row.UpdatedAt

\* A step that handles a request without a store or cache fault, with a
\* producer at hand, and changes the stored row.
PersistStep ==
    /\ HandleStep
    /\ kafkaProducer
    /\ last'.env = NoFault
    /\ db' # db

\* C11: whenever a handled event changes the stored row, the cache entry is
\* refreshed or dropped and one emission carrying the row as written is
\* handed to the producer.
C11_PersistRefreshesAndEmits ==
    [][PersistStep
        => /\ CacheFresh(cache'[TrackedID], Stored')
           /\ Len(published') = Len(published) + 1
           /\ Content(published'[Len(published')].sub) = Content(Stored')]_vars

\* A step that handles, without a fault and with success, an event of the
\* tracked subscription that goes through findAndUpdateSubscriptionStatus.
AppliedStep ==
    /\ HandleStep
    /\ last'.env = NoFault
    /\ ret' = "nil"
    /\ last'.ev.type \in HandledTypes \ {"customer.subscription.trial_will_end"}
    /\ LookupID(last'.ev) = TrackedID

\* C12: after an event with a non-empty plan or price id is applied, the stored
\* row carries that id; an event with no plan id leaves the stored planId as
\* it was.
C12_PlanMerged ==
    [][AppliedStep
        => IF extractPlanIDFromWebhookData(last'.ev.data) # ""
           THEN Stored'.PlanID = extractPlanIDFromWebhookData(last'.ev.data)
           ELSE Stored'.PlanID = Stored.PlanID]_vars

\* A step that handles customer.subscription.updated with status active, no
\* canceled_at and a current_period_end later than the stored one, for the
\* tracked subscription while it is stored past_due, and acknowledges it.
RecoveryStep ==
    /\ HandleStep
    /\ last'.ev.type = "customer.subscription.updated"
    /\ LookupID(last'.ev) = TrackedID
    /\ getStringValue(last'.ev.data, "status") = "active"
    /\ getTimeValueFromUnix(last'.ev.data, "canceled_at") = NilTime
    /\ Stored.Status = "past_due"
    /\ Stored.ExpiresAt # NilTime
    /\ Stored.ExpiresAt < getTimeValueFromUnix(last'.ev.data, "current_period_end")
    /\ ret' = "nil"

C14_StatusInEnum ==
    MachineState(Stored.Status) \in MachineStates

\* The store calls of a request that can fail.
StoreFaults == {"dbGet", "dbUpdate", "dbUpdate2"}

\* A step of the Stripe endpoint that hands a verified event to the service.
ServiceStep ==
    /\ clock' = clock + 1
    /\ http'.entry = "stripe"
    /\ http'.called

\* A store lookup or Update of the step failed: a store call of the request
\* is set to fail, and the step left something else than it leaves when no
\* call fails.
StoreCallFailed ==
    /\ ServiceStep
    /\ \E f \in StoreFaults : ~last'.env[f]
    /\ LET o == HandleWebhookEvent([db |-> db, cache |-> cache], last'.ev.type,
                                   last'.ev.data, clock + 1, NoFault, kafkaProducer)
       IN  o.db # db' \/ o.cache # cache'

\* C15: whenever a store lookup or Update fails while a webhook is handled,
\* HandleWebhookEvent returns an error and the endpoint answers 5xx.
C15_StoreFailureSurfaces ==
    [][StoreCallFailed
        => (ret' = "error" /\ http'.code = StatusInternalServerError)]_vars

\* A step of the Stripe endpoint whose request body could be read.
StripeStep ==
    /\ clock' = clock + 1
    /\ http'.entry = "stripe"
    /\ http'.req.body = "ok"

\* C16: the Stripe endpoint answers 400 for every signature failure and every
\* payload parsing failure; otherwise 500 exactly when the service reports
\* an error, and 200 when the event was processed or ignored.
C16_StatusCodes ==
    [][StripeStep
        => IF \/ http'.req.sigHeader # "good"
              \/ ~http'.req.envelope
              \/ ~http'.req.object
           THEN http'.code = StatusBadRequest
           ELSE IF ret' = "error"
                THEN http'.code = StatusInternalServerError
                ELSE http'.code = StatusOK]_vars

\* C17: at either endpoint a request whose signature header is missing,
\* malformed or not matching is rejected with no payload parsed, no event
\* handler called and no store touched.
C17_SignatureFirst ==
    [][(clock' = clock + 1 /\ http'.entry # "none" /\ http'.req.sigHeader # "good")
        => /\ http'.code = StatusBadRequest
           /\ ~http'.parsed
           /\ ~http'.called
           /\ db' = db
           /\ cache' = cache]_vars


\* The provider error of one attempt: the customer lookup's, else the one
\* Subscriptions.New answered (NoStripeError: the attempt succeeded).
ProviderErrorOf(answers) ==
    IF ~answers.found /\ answers.search.Type = "invalid_request_error"
    THEN answers.search
    ELSE IF ~answers.found /\ answers.customer # NoStripeError THEN answers.customer
    ELSE answers.subscription

\* A call with a complete input has been made.
CallMade == call.made /\ call.input.UserID # ""

\* The provider answered three attempts with HTTP 429 and the fourth with
\* success.
ThreeRateLimitsThenSuccess ==
    /\ CallMade
    /\ \A i \in 1..3 : call.script[i] = CustomerFound(RateLimited)
    /\ call.script[4] = CustomerFound(NoStripeError)

\* C18: when the provider answers three consecutive HTTP 429 responses to
\* subscription creation and then succeeds, CreateSubscriptionWithRetry
\* returns success, and every attempt passed the same idempotency key, the
\* one of the input, to the provider.
C18_RetriesRateLimit ==
    ThreeRateLimitsThenSuccess =>
        /\ call.result.err = NilError
        /\ call.result.output # NoSub
        /\ call.result.run.attempts = 4
        /\ call.result.run.keys = [i \in 1..4 |-> call.input.IdempotencyKey]

\* The provider error classes that ask for a retry: HTTP 429, a connection
\* failure, a 5xx other than 501.
RetryableClass(stripeErr) ==
    \/ stripeErr.HTTPStatusCode = 429
    \/ stripeErr.Type = "api_connection_error"
    \/ stripeErr.HTTPStatusCode \in (500..599) \ {501}

\* C19: inside CreateSubscriptionWithRetry a failed attempt is followed by
\* another one if and only if its provider error is rate-limited (HTTP 429),
\* a connection failure or a 5xx other than 501 (while the elapsed-time
\* budget lasts); card, validation and authentication errors are never
\* retried.
C19_RetryFollowsErrorClass ==
    CallMade =>
        \A i \in 1..(MaxAttempts - 1) :
            (/\ i <= call.result.run.attempts
             /\ ProviderErrorOf(call.script[i]) # NoStripeError)
            => (call.result.run.attempts > i
                    <=> RetryableClass(ProviderErrorOf(call.script[i])))

\* Attempt i of the last call failed with an error that is not retryable: a
\* provider error outside the retryable classes, or the input's rejection.
PermanentFailure(i) ==
    /\ call.made
    /\ i <= call.result.run.attempts
    /\ \/ call.input.UserID = ""
       \/ /\ ProviderErrorOf(call.script[i]) # NoStripeError
          /\ ~RetryableClass(ProviderErrorOf(call.script[i]))

\* C20: when an attempt of CreateSubscriptionWithRetry fails with a
\* non-retryable error, it is the last attempt, no backoff wait follows it,
\* and the call returns that attempt's error.
C20_PermanentShortCircuits ==
    \A i \in 1..MaxAttempts :
        PermanentFailure(i) =>
            /\ call.result.run.attempts = i
            /\ call.result.run.waits = i - 1
            /\ call.result.err # NilError
            /\ call.result.output = NoSub

\* A call whose first attempt was declined by the provider (card error) and
\* that returned after it.
C20_DeclinedOnce ==
    /\ CallMade
    /\ ProviderErrorOf(call.script[1]) = CardDeclined
    /\ PermanentFailure(1)
    /\ call.result.run.attempts = 1
    /\ call.result.run.waits = 0
    /\ call.result.run.keys = <<call.input.IdempotencyKey>>


\* The permanent provider error classes: card, validation (invalid request)
\* and authentication errors.
PermanentClass(stripeErr) ==
    stripeErr.Type \in {"card_error", "invalid_request_error", "authentication_error"}

\* C21: every permanent provider error (card, invalid-request,
\* authentication) raised while creating a subscription reaches the caller as
\* the payment-failure condition ErrPaymentFailed, never as the gateway error
\* ErrStripeClient or another error.
C21_PermanentIsPaymentFailed ==
    \A i \in 1..MaxAttempts :
        (/\ CallMade
         /\ call.result.run.attempts = i
         /\ PermanentClass(ProviderErrorOf(call.script[i])))
        => call.result.err.is = {"ErrPaymentFailed"}


\* The provider answers every attempt of the last call with a transient
\* error.
AlwaysTransient ==
    /\ CallMade
    /\ \A i \in 1..MaxAttempts : RetryableClass(ProviderErrorOf(call.script[i]))

C23_MutatingCallsCarryKey ==
    /\ call.made =>
         \A i \in DOMAIN call.result.run.calls :
             call.result.run.calls[i].key = call.input.IdempotencyKey
    /\ cancel.made =>
         \A i \in DOMAIN cancel.result.calls :
             cancel.result.calls[i].key = cancel.idempotencyKey


\* The last cancel request reached the provider call.
ProviderAsked == cancel.made /\ cancel.result.calls # <<>>

\* C24: the provider-side cancel is idempotent: when the provider answers
\* Subscriptions.Cancel with success or with a resource-missing error the
\* client's CancelSubscription returns nil; every other provider error is
\* returned as an error that carries it.
C24_CancelIdempotentAtProvider ==
    ProviderAsked =>
        /\ (cancel.answer = NoStripeError \/ cancel.answer.Code = "resource_missing")
              => cancel.result.client = NilError
        /\ (cancel.answer # NoStripeError /\ cancel.answer.Code # "resource_missing")
              => (/\ cancel.result.client # NilError
                  /\ cancel.result.client.as = cancel.answer
                  /\ cancel.result.err # "nil")

\* The provider answered a cancel request for a subscription it no longer
\* has, and the request succeeded.
C24_MissingAtProvider ==
    /\ ProviderAsked
    /\ cancel.answer = ResourceMissing
    /\ cancel.result.client = NilError
    /\ cancel.result.err = "nil"


\* The last cancel request came from the owner of a stored subscription.
CancelByOwner ==
    /\ cancel.made
    /\ cancel.before # NoSub
    /\ cancel.userID = cancel.before.UserID

\* The lookup of the last cancel request did not fail (a failed lookup is the
\* one source of ErrInternalServer).
LookupAnswered == cancel.result.err # "ErrInternalServer"

\* C25: a cancel request by the owner for a subscription whose stored status
\* is already canceled returns success without calling the provider, without
\* writing the store and without emitting an event (given that the lookup of
\* the subscription did not fail).
C25_CanceledIsNoOp ==
    (CancelByOwner /\ LookupAnswered /\ cancel.before.Status = "canceled") =>
        /\ cancel.result.err = "nil"
        /\ cancel.result.calls = <<>>
        /\ cancel.result.updates = 0
        /\ cancel.result.emits = <<>>


\* The last creation returned success.
CreateSucceeded == call.made /\ call.result.err = NilError

\* C26: after CreateSubscription returns success, the store holds a
\* Subscription row keyed by the provider subscription id of the output, with
\* the status of the output, so that a later webhook for that id finds it.
C26_CreatePersists ==
    CreateSucceeded =>
        /\ db[call.result.output.SubscriptionID] # NoSub
        /\ db[call.result.output.SubscriptionID].Status = call.result.output.Status


\* The last cancel request of the owner has just returned success for a
\* subscription whose stored status was not canceled.
CancelJustSucceeded ==
    /\ CancelByOwner
    /\ cancel.at = clock
    /\ cancel.before.Status # "canceled"
    /\ cancel.result.err = "nil"

\* C27: after CancelSubscription returns success for a subscription that was
\* not canceled, the stored row has status canceled (so that a cancel request
\* that follows at once finds it canceled and makes no provider call).
C27_CancelPersists ==
    CancelJustSucceeded => db[cancel.subscriptionID].Status = "canceled"


\* The last cancel request of the owner called the provider and returned
\* success.
CancelSucceeded ==
    /\ CancelByOwner
    /\ cancel.result.calls # <<>>
    /\ cancel.result.err = "nil"

\* C28: with a Kafka producer, a successful user-initiated cancel starts one
\* emission, on the cancellation topic, that carries the subscription with
\* status canceled; a successful create starts one emission, on the created
\* topic, that carries the created subscription.
C28_EmitsByKind ==
    kafkaProducer =>
        /\ CancelSucceeded =>
             /\ Len(cancel.result.emits) = 1
             /\ cancel.result.emits[1].topic = TopicSubscriptionCancelled
             /\ cancel.result.emits[1].sub.SubscriptionID = cancel.subscriptionID
             /\ cancel.result.emits[1].sub.Status = "canceled"
        /\ CreateSucceeded =>
             call.result.run.emits =
                 << [topic |-> TopicSubscriptionCreated, sub |-> call.result.output] >>

\* A repository call has just returned.
RepoReturned(ops) == clock' # clock /\ rcall'.op \in ops

\* The store operation of the Create or Update call rc succeeded: no store
\* failure and, for Create, no row with the same id.
StoreSucceeded(rc) ==
    /\ rc.env.dbUpdate
    /\ rc.op = "Create" => rc.before.db[rc.id] = NoSub

\* C29: Create and Update of the cached repository return success whenever
\* the store operation succeeded, whatever the cache write and the list
\* invalidation return; when the store operation fails they return its error
\* and leave the cache (and the store) as they were.
C29_CacheNeverFailsPersistence ==
    [][RepoReturned({"Create", "Update"}) =>
          IF StoreSucceeded(rcall')
          THEN rcall'.result.err = "nil"
          ELSE /\ rcall'.result.err # "nil"
               /\ cache' = cache
               /\ db' = db]_vars

\* A Create or Update whose store operation succeeded while both the cache
\* write and the list invalidation failed.
C29_StoredWhileCacheDown ==
    /\ rcall.op \in {"Create", "Update"}
    /\ StoreSucceeded(rcall)
    /\ ~rcall.env.cacheSet
    /\ ~rcall.env.cacheDel
    /\ rcall.result.err = "nil"
    /\ db[rcall.id] # rcall.before.db[rcall.id]


\* The cache answers the read call rc: the read succeeds and the key holds a
\* record (GetByID) or a non-empty list (GetByUserID).
CacheHit(rc) ==
    /\ rc.env.cacheGet
    /\ IF rc.op = "GetByID"
       THEN rc.before.cache[rc.id] # NoSub
       ELSE rc.before.cache[userSubscriptionsKey(rc.userID)] # NoList

\* What the cache held for the read call rc.
CachedAnswer(rc) ==
    IF rc.op = "GetByID"
    THEN RepoResult("nil", rc.before.cache[rc.id], NoList)
    ELSE RepoResult("nil", NoSub, rc.before.cache[userSubscriptionsKey(rc.userID)])

\* What the store returns to the read call rc.
StoreAnswer(rc) ==
    IF rc.op = "GetByID"
    THEN RepoResult(RepoGetByID(rc.before.db, rc.id, rc.env.dbGet).err,
                    RepoGetByID(rc.before.db, rc.id, rc.env.dbGet).sub, NoList)
    ELSE RepoResult(RepoGetByUserID(rc.before.db, rc.userID, rc.env.dbGet).err,
                    NoSub,
                    RepoGetByUserID(rc.before.db, rc.userID, rc.env.dbGet).subs)

\* The key of the read call rc holds in c the value the call returned.
HoldsLoaded(c, rc) ==
    IF rc.op = "GetByID"
    THEN c[rc.id] = rc.result.sub
    ELSE c[userSubscriptionsKey(rc.userID)] = rc.result.subs

\* The read call rc returns the cached value on a hit and otherwise exactly
\* what the store returns.
ReadsThrough(rc) ==
    rc.result = IF CacheHit(rc) THEN CachedAnswer(rc) ELSE StoreAnswer(rc)

\* The cache write that follows a miss of rc is made and succeeds: the cache
\* accepts the SET and, for GetByUserID, the loaded list is not empty.
FillStored(rc) ==
    /\ rc.env.cacheSet
    /\ rc.op = "GetByUserID" => rc.result.subs # <<>>

\* C30 as stated: GetByID and GetByUserID return the cached value on a hit;
\* on a miss or any cache error they return exactly what the store returns,
\* never the cache error; after a miss that the store answers, the cache
\* holds the loaded value.
C30_ReadThroughAlwaysFills ==
    [][RepoReturned({"GetByID", "GetByUserID"}) =>
          /\ ReadsThrough(rcall')
          /\ (~CacheHit(rcall') /\ rcall'.result.err = "nil")
                => HoldsLoaded(cache', rcall')]_vars

\* C30, amended: GetByID and GetByUserID return the cached value on a hit; on
\* a miss or any cache error they return exactly what the store returns,
\* never the cache error; after a miss that the store answers, the cache
\* holds the loaded value when the cache write succeeds and, for
\* GetByUserID, the list is not empty, and is left as it was otherwise.
C30_ReadThrough ==
    [][RepoReturned({"GetByID", "GetByUserID"}) =>
          /\ ReadsThrough(rcall')
          /\ db' = db
          /\ IF ~CacheHit(rcall') /\ rcall'.result.err = "nil" /\ FillStored(rcall')
             THEN HoldsLoaded(cache', rcall')
             ELSE cache' = cache]_vars

\* A GetByID whose cache read failed and whose cache write succeeded: the
\* call returned the stored row and the key, which did not hold it, now does.
C30_LoadedAfterCacheError ==
    /\ rcall.op = "GetByID"
    /\ ~rcall.env.cacheGet
    /\ rcall.env.cacheSet
    /\ rcall.before.db[rcall.id] # NoSub
    /\ rcall.before.cache[rcall.id] # rcall.before.db[rcall.id]
    /\ rcall.result = RepoResult("nil", rcall.before.db[rcall.id], NoList)
    /\ cache[rcall.id] = rcall.before.db[rcall.id]


\* C31: after a Create or Update of a user's subscription through the cached
\* repository has returned with the store changed, the list key of that user
\* holds no list computed before the mutation: it is empty or holds the
\* user's rows as they now are.
C31_MutationInvalidatesList ==
    [][(RepoReturned({"Create", "Update"}) /\ StoreSucceeded(rcall')) =>
          \/ cache'[userSubscriptionsKey(rcall'.userID)] = NoList
          \/ cache'[userSubscriptionsKey(rcall'.userID)]
                = RepoGetByUserID(db', rcall'.userID, TRUE).subs]_vars


\* The messages delivered with the payload sub.
Deliveries(sub) ==
    {i \in 1..Len(bus.delivered) : bus.delivered[i].sub = sub}

\* C32: event delivery is at-least-once: every emission the service has
\* decided on (with a producer in place) is delivered to the bus at least
\* once, also when a publish attempt fails or times out. No step other than
\* the publish call itself delivers, so "eventually" is "when
\* publishSubscriptionEvent has returned".
C32_AtLeastOnce ==
    kafkaProducer =>
        \A i \in 1..Len(bus.decided) : Deliveries(bus.decided[i]) # {}


\* Task t of ts is the goroutine of ProcessWebhook for event id and has not
\* finished.
GoroutineRuns(ts, t, id) ==
    /\ ts[t].kind = "goroutine"
    /\ ts[t].pc # "done"
    /\ ts[t].event.ID = id

\* The entry e records a finished attempt: processed with processedAt set or
\* failed with errorMessage set, and lastAttempt set.
AttemptRecorded(e) ==
    /\ e.LastAttempt # NilTime
    /\ \/ e.Status = WebhookEventStatusProcessed /\ e.ProcessedAt # NilTime
       \/ e.Status = WebhookEventStatusFailed /\ e.ErrorMessage # ""

\* C33: ProcessWebhook records the event as pending with attemptCount 0 and
\* starts its processing; while that processing runs nothing else changes the
\* event; when it finishes the event is updated, once, to processed
\* (processedAt set) or failed (errorMessage set) with attemptCount
\* incremented by one and lastAttempt set.
C33_ReceiptLifecycle ==
    [][\A id \in EventIDs :
          /\ (events[id] = NoEvent /\ events'[id] # NoEvent) =>
                /\ events'[id].Status = WebhookEventStatusPending
                /\ events'[id].AttemptCount = 0
                /\ \E t \in Tasks : GoroutineRuns(tasks', t, id)
          /\ \A t \in Tasks :
                GoroutineRuns(tasks, t, id) =>
                    /\ events[id].Status = WebhookEventStatusPending
                    /\ events'[id] # events[id] =>
                          /\ tasks'[t].pc = "done"
                          /\ AttemptRecorded(events'[id])
                          /\ events'[id].AttemptCount = events[id].AttemptCount + 1
                    /\ tasks'[t].pc = "done" => events'[id] # events[id]]_vars

\* The goroutine of an event has finished after a failed processing: the
\* event is failed with one attempt.
C33_FailedOnce ==
    \E t \in Tasks :
        /\ tasks[t].kind = "goroutine"
        /\ tasks[t].pc = "done"
        /\ tasks[t].err # "nil"
        /\ events[tasks[t].event.ID].Status = WebhookEventStatusFailed
        /\ events[tasks[t].event.ID].AttemptCount = 1
        /\ events[tasks[t].event.ID].ErrorMessage = tasks[t].err


\* A goroutine or a retry call is at work on event id.
InFlight(id) ==
    \E t \in Tasks : tasks[t].pc \notin {"idle", "done"} /\ tasks[t].event.ID = id

\* C35: no event stays pending: once the processing of an event, started by
\* its receipt or by RetryWebhookEvent, has returned and nothing is at work
\* on it, the event is processed or failed (and so can be retried again).
C35_NoPendingAtRest ==
    \A id \in EventIDs :
        (events[id] # NoEvent /\ ~InFlight(id)) =>
            events[id].Status \in {WebhookEventStatusProcessed, WebhookEventStatusFailed}

\* C39: at most one processing of a given event is in flight at any time.
C39_OneProcessingInFlight ==
    \A id \in EventIDs :
        Cardinality({t \in Tasks : /\ tasks[t].pc = "processing"
                                   /\ tasks[t].event.ID = id}) <= 1


\* C34: internal error detail is never leaked: two failures of the same call
\* on the same transport with the same kind of error get identical
\* responses, whatever the internal or provider text of the errors.
C34_NoDetailLeaked ==
    \A a \in replies, b \in replies :
        (a.transport = b.transport /\ a.api = b.api /\ a.err.is = b.err.is)
            => a.response = b.response


\* The event types C37 names.
SubscriptionAndInvoiceTypes ==
    {"customer.subscription.created", "customer.subscription.updated",
     "customer.subscription.deleted", "invoice.payment_succeeded",
     "invoice.payment_failed"}

\* C37: an event of a handled subscription or invoice type whose payload
\* carries no subscription id is acknowledged: HandleWebhookEvent returns
\* success and writes nothing to the store.
C37_MissingIdAcknowledged ==
    [][(/\ HandleStep
        /\ last'.ev.type \in SubscriptionAndInvoiceTypes
        /\ LookupID(last'.ev) = "")
        => (ret' = "nil" /\ updates' = 0 /\ db' = db)]_vars


\* The event object of the last extraction carries a non-empty string under
\* both "subscription" and "id".
BothPresent ==
    /\ pick.made
    /\ getStringValue(pick.rawData, "subscription") # ""
    /\ getStringValue(pick.rawData, "id") # ""

\* C36: when both a "subscription" and an "id" field are present the handler
\* selects "subscription" for an invoice object and the object's own "id" for
\* a subscription object; for any other object type no id is selected from
\* "id".
C36_PickByObjectType ==
    BothPresent =>
        CASE getStringValue(pick.rawData, "object") = "invoice" ->
                pick.subID = getStringValue(pick.rawData, "subscription")
          [] getStringValue(pick.rawData, "object") = "subscription" ->
                pick.subID = getStringValue(pick.rawData, "id")
          [] OTHER -> pick.subID # getStringValue(pick.rawData, "id")


\* A step in which GetSubscriptionByID returns to a user who asked for a
\* subscription that does not exist or that belongs to another user.
GetOfStranger ==
    /\ got' # got
    /\ got'.before = NoSub \/ got'.before.UserID # got'.userID

\* A step in which CancelSubscription returns to a user who asked for a
\* subscription that does not exist or that belongs to another user.
CancelOfStranger ==
    /\ cancel' # cancel
    /\ cancel'.before = NoSub \/ cancel'.before.UserID # cancel'.userID

\* C38: GetSubscriptionByID and CancelSubscription called by a user who does
\* not own the subscription return what they return for an id that does not
\* exist, ErrSubscriptionNotFound (ErrInternalServer when the lookup itself
\* fails), hand out no subscription and make no provider call, no store
\* write and no emission.
C38_OwnershipHidden ==
    [][/\ GetOfStranger =>
             /\ got'.sub = NoSub
             /\ got'.err \in {"ErrSubscriptionNotFound", "ErrInternalServer"}
             /\ db' = db
             /\ published' = published
             /\ updates' = updates
       /\ CancelOfStranger =>
             /\ cancel'.result.err \in {"ErrSubscriptionNotFound", "ErrInternalServer"}
             /\ cancel'.result.calls = <<>>
             /\ db' = db
             /\ published' = published
             /\ updates' = updates]_vars

\* Both calls have been made by a user who does not own the stored
\* subscription, with every store and cache call succeeding, and both
\* returned ErrSubscriptionNotFound.
C38_StrangerRefused ==
    /\ got.made
    /\ got.before # NoSub
    /\ got.before.UserID # got.userID
    /\ got.err = "ErrSubscriptionNotFound"
    /\ cancel.made
    /\ cancel.before # NoSub
    /\ cancel.before.UserID # cancel.userID
    /\ cancel.result.err = "ErrSubscriptionNotFound"


\* No repository call is in flight.
AtRest == \A c \in Callers : flight[c].pc = "idle"

\* C40: for any interleaving of concurrent Update and GetByID calls on the
\* same subscription through CachedSubscriptionRepository, every cache
\* operation succeeding, once no call is in flight the cached entry of the
\* subscription, if present, equals the record in the store.
C40_CoherentAtRest ==
    AtRest => \A id \in SubIDs : cache[id] # NoSub => cache[id] = db[id]

====
